---------------------------- MODULE Spec2Model ----------------------------
(***************************************************************************)
(* Model of the NRL response index of Station_Response_Manager             *)
(* (src/SRM_core/nrl_index.py): signature hashing of response stages, the  *)
(* index life cycle (build, save, load, needs_rebuild) and instrument      *)
(* detection with gain-ratio disambiguation.                               *)
(*                                                                         *)
(* Conventions                                                             *)
(*  - A float is an exact rational <<n, d>> in lowest terms with d > 0.    *)
(*    Python's None and 0.0 are both tested only through truthiness        *)
(*    wherever a gain is read, so an absent gain is the rational zero.     *)
(*  - A hash digest (sha256 / md5 hexdigest) is the sequence of tokens fed *)
(*    to the hasher: two digests are equal exactly when the hashed text is *)
(*    equal (no collisions).  The digest None is the empty sequence.       *)
(*  - A response is its list of stages; the response None and a response   *)
(*    with an empty stage list take the same branches everywhere and are   *)
(*    both the empty sequence.                                             *)
(***************************************************************************)
EXTENDS Integers, Sequences, FiniteSets, TLC

(***************************************************************************)
(* Rational arithmetic (Python float arithmetic, without rounding error).  *)
(***************************************************************************)
Abs(n) == IF n < 0 THEN -n ELSE n

RECURSIVE GCD(_, _)
GCD(a, b) == IF b = 0 THEN a ELSE GCD(b, a % b)

R(n, d) ==
    LET s == IF d < 0 THEN -1 ELSE 1
        g == GCD(Abs(n), Abs(d))
    IN  IF n = 0 THEN <<0, 1>> ELSE <<(s * n) \div g, (s * d) \div g>>

Zero == <<0, 1>>
One == <<1, 1>>

RMul(a, b) == R(a[1] * b[1], a[2] * b[2])
RDiv(a, b) == R(a[1] * b[2], a[2] * b[1])
RAdd(a, b) == R(a[1] * b[2] + b[1] * a[2], a[2] * b[2])
RSub(a, b) == R(a[1] * b[2] - b[1] * a[2], a[2] * b[2])
RAbs(a) == <<Abs(a[1]), a[2]>>
RLess(a, b) == a[1] * (b[2] \div GCD(a[2], b[2])) < b[1] * (a[2] \div GCD(a[2], b[2]))
RMax(a, b) == IF RLess(a, b) THEN b ELSE a

RECURSIVE Pow10(_)
Pow10(k) == IF k = 0 THEN 1 ELSE 10 * Pow10(k - 1)

\* The integer nearest to n/d (d > 0), ties to the even one: round().
RoundHalfEven(n, d) ==
    LET q == n \div d
        r == n % d
    IN  IF 2 * r < d THEN q
        ELSE IF 2 * r > d THEN q + 1
        ELSE IF q % 2 = 0 THEN q ELSE q + 1

\* round(x, ndigits), ndigits any integer.
Round(x, ndigits) ==
    IF ndigits >= 0
    THEN LET p == Pow10(ndigits)
             g == GCD(p, x[2])
         IN  R(RoundHalfEven(x[1] * (p \div g), x[2] \div g), p)
    ELSE R(RoundHalfEven(x[1], x[2] * Pow10(-ndigits)) * Pow10(-ndigits), 1)

\* floor(log10(x)) for x > 0.
RECURSIVE FloorLog10(_)
FloorLog10(x) ==
    IF ~RLess(x, <<10, 1>>) THEN 1 + FloorLog10(RDiv(x, <<10, 1>>))
    ELSE IF RLess(x, One) THEN FloorLog10(RMul(x, <<10, 1>>)) - 1
    ELSE 0

HASH_SIG_FIGS == 5

round_to_sig_figs(x) ==
    IF x = Zero THEN Zero
    ELSE Round(x, HASH_SIG_FIGS - FloorLog10(RAbs(x)) - 1)

(***************************************************************************)
(* Response stages (the obspy objects the index reads).                    *)
(*   type      class name of the stage                                     *)
(*   stage_gain, decimation_factor (0: None), input_units, output_units    *)
(*   tf        pz_transfer_function_type; poles, zeros: lists of <<re,im>> *)
(*   symmetry  ("": None); numerator, coefficients: lists of floats        *)
(***************************************************************************)
Truthy(x) == x # Zero

IsPolesZerosType(t) == t = "PolesZerosResponseStage"
IsCoeffType(t) == t \in {"FIRResponseStage", "CoefficientsTypeResponseStage"}

VoltUnits == {"V", "VOLT", "VOLTS"}

Tok(k, v) == <<k, v>>
STok(k) == <<k, Zero>>

NoSig == <<>>

\* sorted(points, key = (round_to_sig_figs(re), round_to_sig_figs(im))),
\* as the list of rounded pairs that is then hashed.
PairLeq(a, b) ==
    \/ RLess(a[1], b[1])
    \/ a[1] = b[1] /\ ~RLess(b[2], a[2])

RECURSIVE InsertSorted(_, _)
InsertSorted(p, s) ==
    IF s = <<>> THEN <<p>>
    ELSE IF PairLeq(p, Head(s)) THEN <<p>> \o s
    ELSE <<Head(s)>> \o InsertSorted(p, Tail(s))

RECURSIVE RoundedUnsorted(_)
RoundedUnsorted(pts) ==
    IF pts = <<>> THEN <<>>
    ELSE <<<<round_to_sig_figs(Head(pts)[1]),
             round_to_sig_figs(Head(pts)[2])>>>>
         \o RoundedUnsorted(Tail(pts))

RECURSIVE SortedRounded(_)
SortedRounded(pts) ==
    IF pts = <<>> THEN <<>>
    ELSE InsertSorted(<<round_to_sig_figs(Head(pts)[1]),
                        round_to_sig_figs(Head(pts)[2])>>,
                      SortedRounded(Tail(pts)))

RECURSIVE PointTokens(_, _)
PointTokens(k, pts) ==
    IF pts = <<>> THEN <<>>
    ELSE <<Tok(k \o ".re", Head(pts)[1]), Tok(k \o ".im", Head(pts)[2])>>
         \o PointTokens(k, Tail(pts))

RECURSIVE CoeffTokens(_)
CoeffTokens(cs) ==
    IF cs = <<>> THEN <<>>
    ELSE <<Tok(":", round_to_sig_figs(Head(cs)))>> \o CoeffTokens(Tail(cs))

_hash_stage(stage, prefix, exclude_gain, normalize_type) ==
    LET head == IF normalize_type /\ IsCoeffType(stage.type)
                THEN <<STok(prefix \o ":DigitalFilter")>>
                ELSE <<STok(prefix \o ":" \o stage.type)>>
        gain == IF ~exclude_gain /\ Truthy(stage.stage_gain)
                THEN <<Tok(":gain=", Round(stage.stage_gain, 2))>>
                ELSE <<>>
        dec  == IF stage.decimation_factor # 0
                THEN <<Tok(":dec=", R(stage.decimation_factor, 1))>>
                ELSE <<>>
        pz   == IF IsPolesZerosType(stage.type)
                THEN <<STok(":tf=" \o stage.tf)>>
                     \o PointTokens(":p=", SortedRounded(stage.poles))
                     \o PointTokens(":z=", SortedRounded(stage.zeros))
                ELSE <<>>
        coeffs == IF stage.numerator # <<>> THEN stage.numerator
                  ELSE stage.coefficients
        fir  == IF IsCoeffType(stage.type)
                THEN (IF stage.symmetry # ""
                      THEN <<STok(":sym=" \o stage.symmetry)>> ELSE <<>>)
                     \o (IF coeffs # <<>>
                         THEN <<Tok(":nc=", R(Len(coeffs), 1))>>
                              \o CoeffTokens(coeffs)
                         ELSE <<>>)
                ELSE <<>>
    IN  head \o gain \o dec \o pz \o fir

_compute_sensor_signature(response) ==
    IF response = <<>> THEN NoSig
    ELSE _hash_stage(response[1], "sensor", FALSE, FALSE)

\* The prefix f"s{i}" of the i-th stage after the first.
StagePrefix(i) == <<"s0", "s1", "s2", "s3", "s4", "s5", "s6", "s7">>[i + 1]

RECURSIVE Stages1PlusTokens(_, _)
Stages1PlusTokens(stages, i) ==
    IF stages = <<>> THEN <<>>
    ELSE _hash_stage(Head(stages), StagePrefix(i), FALSE, FALSE)
         \o Stages1PlusTokens(Tail(stages), i + 1)

_compute_datalogger_signature_stages_1_plus(response) ==
    IF response = <<>> THEN NoSig
    ELSE IF Len(response) < 2 THEN NoSig
    ELSE <<STok("datalogger:")>> \o Stages1PlusTokens(Tail(response), 0)

\* The 0-based index of the first volt-in/count-out stage, or -1 (None).
NoAdc == -1

IsAdcStage(stage) ==
    /\ stage.input_units \in VoltUnits
    /\ stage.output_units \in {"COUNT", "COUNTS"}

_find_adc_stage_index(response) ==
    IF \E i \in 1..Len(response) : IsAdcStage(response[i])
    THEN (CHOOSE i \in 1..Len(response) :
            /\ IsAdcStage(response[i])
            /\ \A j \in 1..(i - 1) : ~IsAdcStage(response[j])) - 1
    ELSE NoAdc

IsVoltToVolt(stage) ==
    stage.input_units \in VoltUnits /\ stage.output_units \in VoltUnits

\* The product of the truthy stage gains from position `from` (1-based) to
\* `to`; with only_v2v, over the volt-to-volt stages alone.
RECURSIVE GainProduct(_, _, _, _)
GainProduct(response, from, to, only_v2v) ==
    IF from > to THEN One
    ELSE LET g == response[from].stage_gain
             rest == GainProduct(response, from + 1, to, only_v2v)
         IN  IF (only_v2v => IsVoltToVolt(response[from])) /\ Truthy(g)
             THEN RMul(g, rest)
             ELSE rest

\* None is Zero: a product of truthy gains is never 0.0.
PreampGainAfterIndex1(response, adc_idx) ==
    IF response = <<>> \/ adc_idx = NoAdc \/ adc_idx <= 2 THEN Zero
    ELSE IF \E i \in 3..adc_idx : IsVoltToVolt(response[i])
         THEN GainProduct(response, 3, adc_idx, TRUE)
         ELSE Zero

_find_preamp_gain(response, adc_idx) ==
    IF response = <<>> \/ adc_idx = NoAdc \/ adc_idx <= 1 THEN Zero
    ELSE IF \E i \in 2..adc_idx : IsVoltToVolt(response[i])
         THEN GainProduct(response, 2, adc_idx, TRUE)
         ELSE Zero

_compute_total_digital_gain(response, adc_idx) ==
    GainProduct(response, adc_idx + 1, Len(response), FALSE)

_get_fir_coefficients(stage) ==
    IF stage.numerator # <<>> THEN stage.numerator
    ELSE stage.coefficients

NoCoefficients(stage) == _get_fir_coefficients(stage) = <<>>

_is_passthrough_stage(stage) ==
    LET coeffs == _get_fir_coefficients(stage)
    IN  \/ coeffs = <<>>
        \/ /\ Len(coeffs) = 1
           /\ RLess(RAbs(RSub(coeffs[1], One)), <<1, 1000>>)

RECURSIVE SumCoeffs(_)
SumCoeffs(cs) == IF cs = <<>> THEN Zero ELSE RAdd(Head(cs), SumCoeffs(Tail(cs)))

Min(a, b) == IF a < b THEN a ELSE b
Max(a, b) == IF a < b THEN b ELSE a

CoeffIndexName(i) == <<":c0=", ":c1=", ":c2=", ":c3=", ":c4=", ":c5=">>[i + 1]

_hash_fir_fingerprint(coeffs, prefix) ==
    LET n == Len(coeffs)
        first == [k \in 1..Min(3, n) |->
                    Tok(CoeffIndexName(k - 1), round_to_sig_figs(coeffs[k]))]
        lo == Max(0, n - 3)
        last == [k \in 1..(n - lo) |->
                    Tok(CoeffIndexName(lo + k - 1),
                        round_to_sig_figs(coeffs[lo + k]))]
    IN  <<Tok(prefix \o ":n=", R(n, 1))>> \o first \o last
        \o <<Tok(":sum=", round_to_sig_figs(SumCoeffs(coeffs)))>>

FirPrefix(i) == <<"f0", "f1", "f2", "f3", "f4", "f5", "f6", "f7">>[i + 1]

\* The loop over response_stages[adc_idx:] shared by the three datalogger
\* signatures: a fingerprint and the decimation factor of every stage that
\* is not a passthrough, numbered f0, f1, ...
RECURSIVE FilterChainTokens(_, _)
FilterChainTokens(stages, fir_idx) ==
    IF stages = <<>> THEN <<>>
    ELSE IF _is_passthrough_stage(Head(stages))
         THEN FilterChainTokens(Tail(stages), fir_idx)
         ELSE _hash_fir_fingerprint(_get_fir_coefficients(Head(stages)),
                                    FirPrefix(fir_idx))
              \o (IF Head(stages).decimation_factor # 0
                  THEN <<Tok(":dec=", R(Head(stages).decimation_factor, 1))>>
                  ELSE <<>>)
              \o FilterChainTokens(Tail(stages), fir_idx + 1)

StagesFrom(response, adc_idx) ==
    SubSeq(response, adc_idx + 1, Len(response))

\* Build time: the exact signature of a reference file, with the gain of
\* the file's stage 0 as the preamp gain.
_compute_dl_sig_with_preamp(response, adc_idx) ==
    IF response = <<>> THEN NoSig
    ELSE IF adc_idx >= Len(response) THEN NoSig
    ELSE <<STok("dl_exact:")>>
         \o (IF Truthy(response[1].stage_gain)
             THEN <<Tok(":pg=", Round(response[1].stage_gain, 2))>>
             ELSE <<>>)
         \o <<Tok(":tg=",
                  Round(_compute_total_digital_gain(response, adc_idx), 2))>>
         \o FilterChainTokens(StagesFrom(response, adc_idx), 0)

\* Detection time: the exact signature with the measured preamp gain
\* (has_preamp FALSE: user_preamp_gain is None).
_compute_dl_sig_with_user_preamp(response, adc_idx, has_preamp, user_preamp_gain) ==
    IF response = <<>> THEN NoSig
    ELSE IF adc_idx >= Len(response) THEN NoSig
    ELSE <<STok("dl_exact:")>>
         \o (IF has_preamp
             THEN <<Tok(":pg=", Round(user_preamp_gain, 2))>>
             ELSE <<>>)
         \o <<Tok(":tg=",
                  Round(_compute_total_digital_gain(response, adc_idx), 2))>>
         \o FilterChainTokens(StagesFrom(response, adc_idx), 0)

FamilySignatureWithGain(response, adc_idx) ==
    _compute_dl_sig_with_preamp(response, adc_idx)

_compute_dl_sig_without_gain(response, adc_idx) ==
    IF response = <<>> THEN NoSig
    ELSE IF adc_idx >= Len(response) THEN NoSig
    ELSE <<STok("dl_family:")>>
         \o FilterChainTokens(StagesFrom(response, adc_idx), 0)

_compute_datalogger_signature_from_response(response) ==
    IF response = <<>> THEN NoSig
    ELSE IF _find_adc_stage_index(response) # NoAdc
         THEN _compute_dl_sig_without_gain(response,
                                           _find_adc_stage_index(response))
         ELSE NoSig


(***************************************************************************)
(* InstrumentInfo, and its JSON form in the persisted index.               *)
(* An optional Python value is a sequence of length at most one.           *)
(***************************************************************************)
None == <<>>
Some(x) == <<x>>

\* The optional fields default to None: stage0_gain and adc_gain (Zero),
\* family_name and variant_params ("").
InstrumentInfo(manufacturer, model, description, nrl_path, stage0_gain, adc_gain, family_name, variant_params) ==
    [manufacturer |-> manufacturer, model |-> model,
     description |-> description, nrl_path |-> nrl_path,
     stage0_gain |-> stage0_gain, adc_gain |-> adc_gain,
     family_name |-> family_name, variant_params |-> variant_params]

\* extract_family_info on a model string in which no pattern of
\* param_patterns occurs and that holds no underscore, with a description
\* that holds no ';' (the reference files of NrlFiles): no match is
\* stripped, variant_parts stays empty.
extract_family_info(manufacturer, model, description) ==
    LET base_model == model
    IN  [family_name |-> IF base_model # ""
                         THEN manufacturer \o " " \o base_model
                         ELSE manufacturer,
         variant_params |-> ""]

\* JSON values: a string, a number or null.
JStr(s) == [t |-> "str", s |-> s, n |-> Zero]
JNum(x) == [t |-> "num", s |-> "", n |-> x]
JNull == [t |-> "null", s |-> "", n |-> Zero]

OptStr(s) == IF s = "" THEN JNull ELSE JStr(s)
OptNum(x) == IF x = Zero THEN JNull ELSE JNum(x)

\* A serialisation that loses adc_gain; C6_RoundTrip must tell it from
\* asdict.
asdictWithoutAdcGain(info) ==
    {<<"manufacturer", JStr(info.manufacturer)>>,
     <<"model", JStr(info.model)>>,
     <<"description", JStr(info.description)>>,
     <<"nrl_path", JStr(info.nrl_path)>>,
     <<"stage0_gain", OptNum(info.stage0_gain)>>,
     <<"adc_gain", JNull>>,
     <<"family_name", OptStr(info.family_name)>>,
     <<"variant_params", OptStr(info.variant_params)>>}

\* dataclasses.asdict(info) as json.dump writes it: an object, the set of
\* its <<key, value>> members.
asdict(info) ==
    {<<"manufacturer", JStr(info.manufacturer)>>,
     <<"model", JStr(info.model)>>,
     <<"description", JStr(info.description)>>,
     <<"nrl_path", JStr(info.nrl_path)>>,
     <<"stage0_gain", OptNum(info.stage0_gain)>>,
     <<"adc_gain", OptNum(info.adc_gain)>>,
     <<"family_name", OptStr(info.family_name)>>,
     <<"variant_params", OptStr(info.variant_params)>>}

RequiredFields == {"manufacturer", "model", "description", "nrl_path"}
OptionalFields == {"stage0_gain", "adc_gain", "family_name", "variant_params"}

Keys(obj) == {m[1] : m \in obj}
Member(obj, k) == (CHOOSE m \in obj : m[1] = k)[2]
GetStr(obj, k) == IF k \in Keys(obj) THEN Member(obj, k).s ELSE ""
GetNum(obj, k) == IF k \in Keys(obj) THEN Member(obj, k).n ELSE Zero

\* InstrumentInfo(**info) raises TypeError on an unknown keyword and on a
\* missing required one.
InfoRaises(obj) ==
    \/ ~(Keys(obj) \subseteq (RequiredFields \cup OptionalFields))
    \/ ~(RequiredFields \subseteq Keys(obj))

InfoFromDict(obj) ==
    InstrumentInfo(GetStr(obj, "manufacturer"), GetStr(obj, "model"),
                   GetStr(obj, "description"), GetStr(obj, "nrl_path"),
                   GetNum(obj, "stage0_gain"), GetNum(obj, "adc_gain"),
                   GetStr(obj, "family_name"), GetStr(obj, "variant_params"))

(***************************************************************************)
(* Signature maps: Python dicts in insertion order, as lists of            *)
(* [sig, infos] entries with distinct sigs.                                *)
(***************************************************************************)
HasSig(map, sig) == \E i \in 1..Len(map) : map[i].sig = sig
Lookup(map, sig) == map[CHOOSE i \in 1..Len(map) : map[i].sig = sig].infos

\* if sig not in map: map[sig] = []; map[sig].append(info)
Append1(map, sig, info) ==
    IF HasSig(map, sig)
    THEN [i \in 1..Len(map) |->
            IF map[i].sig = sig
            THEN [sig |-> sig, infos |-> Append(map[i].infos, info)]
            ELSE map[i]]
    ELSE Append(map, [sig |-> sig, infos |-> <<info>>])

\* map[sig] = infos
SetSig(map, sig, infos) ==
    IF HasSig(map, sig)
    THEN [i \in 1..Len(map) |->
            IF map[i].sig = sig THEN [sig |-> sig, infos |-> infos]
            ELSE map[i]]
    ELSE Append(map, [sig |-> sig, infos |-> infos])

(***************************************************************************)
(* The NRLIndex object.                                                    *)
(***************************************************************************)
INDEX_VERSION == "0.1"

\* __init__: _index None (is_loaded FALSE), three empty maps.
NewIndex ==
    [is_loaded |-> FALSE,
     _sensor_signatures |-> <<>>,
     _datalogger_signatures |-> <<>>,
     _datalogger_family_sigs |-> <<>>]


(***************************************************************************)
(* The reference library on disk: the .xml files below nrl_root.           *)
(* NrlFiles lists them in lexicographic order of their relative path, so   *)
(* sorted() of directory and file names is the order of the file numbers.  *)
(* A file has readable FALSE when read_inventory or the computation of its *)
(* signature raises.                                                       *)
(***************************************************************************)
Stage(type, gain, in_u, out_u) ==
    [type |-> type, stage_gain |-> gain, decimation_factor |-> 0,
     input_units |-> in_u, output_units |-> out_u, tf |-> "",
     poles |-> <<>>, zeros |-> <<>>, symmetry |-> "",
     numerator |-> <<>>, coefficients |-> <<>>]

PolesZerosStage(gain, poles, zeros) ==
    [Stage("PolesZerosResponseStage", gain, "M/S", "V")
        EXCEPT !.tf = "LAPLACE (RADIANS/SECOND)",
               !.poles = poles, !.zeros = zeros]

PreampStage(gain) == Stage("ResponseStage", gain, "V", "V")

AdcStage(gain, out_u) ==
    [Stage("CoefficientsTypeResponseStage", gain, "V", out_u)
        EXCEPT !.decimation_factor = 1]

FirStage(coeffs, dec) ==
    [Stage("FIRResponseStage", One, "COUNTS", "COUNTS")
        EXCEPT !.decimation_factor = dec, !.symmetry = "EVEN",
               !.coefficients = coeffs]

Cmg3tStage ==
    PolesZerosStage(<<1500, 1>>,
                    << <<R(-37, 1000), R(37, 1000)>>,
                       <<R(-37, 1000), R(-37, 1000)>> >>,
                    << <<Zero, Zero>>, <<Zero, Zero>> >>)

TrilliumStage ==
    PolesZerosStage(<<750, 1>>,
                    << <<R(-3691, 100000), R(3702, 100000)>>,
                       <<R(-343, 1), Zero>> >>,
                    << <<Zero, Zero>>, <<Zero, Zero>>, <<R(-392, 1), Zero>> >>)

FirA == FirStage(<<R(1, 4), R(1, 2), R(1, 4)>>, 2)
FirB == FirStage(<<R(1, 8), R(3, 8), R(3, 8), R(1, 8)>>, 4)
FirC == FirStage(<<R(1, 2), R(1, 2)>>, 2)

AdcGain == <<400, 1>>

NrlFile(kind, manufacturer, stem, readable, stages) ==
    [kind |-> kind, manufacturer |-> manufacturer, stem |-> stem,
     readable |-> readable, stages |-> stages]

NrlFiles ==
    << NrlFile("datalogger", "Nanometrics", "Centaur2x", TRUE,
               <<PreampStage(<<2, 1>>), AdcStage(AdcGain, "COUNTS"), FirA>>),
       NrlFile("datalogger", "Nanometrics", "Centaur4x", TRUE,
               <<PreampStage(<<4, 1>>), AdcStage(AdcGain, "COUNTS"), FirA>>),
       NrlFile("datalogger", "Quanterra", "Q330", TRUE,
               <<PreampStage(One), AdcStage(AdcGain, "COUNTS"), FirB, FirC>>),
       NrlFile("datalogger", "RefTek", "RT130", TRUE,
               <<PreampStage(One), AdcStage(AdcGain, "DU"), FirA>>),
       NrlFile("datalogger", "RefTek", "RT130B", TRUE,
               <<PreampStage(<<8, 1>>), AdcStage(AdcGain, "DU"), FirA>>),
       NrlFile("datalogger", "Sercel", "Unite", FALSE, <<>>),
       NrlFile("sensor", "Guralp", "CMG3T", TRUE, <<Cmg3tStage>>),
       NrlFile("sensor", "Nanometrics", "Trillium120", TRUE,
               <<TrilliumStage>>),
       NrlFile("sensor", "Nanometrics", "Trillium120Q", TRUE,
               <<TrilliumStage>>),
       NrlFile("sensor", "Streckeisen", "STS2", FALSE, <<>>) >>

FileIds == 1..Len(NrlFiles)

FileName(f) == NrlFiles[f].stem \o ".xml"
RelPath(f) ==
    NrlFiles[f].kind \o "/" \o NrlFiles[f].manufacturer \o "/" \o FileName(f)

\* get_nrl_modification_hash: md5 over "rel_path:mtime" of every file, in
\* sorted walk order.  lib[f] is the mtime of file f, 0 when it is absent.
RECURSIVE HashTokens(_, _)
HashTokens(lib, f) ==
    IF f > Len(NrlFiles) THEN <<>>
    ELSE (IF lib[f] # 0 THEN <<Tok(RelPath(f) \o ":", R(lib[f], 1))>>
          ELSE <<>>)
         \o HashTokens(lib, f + 1)

get_nrl_modification_hash(lib) == <<STok("md5:")>> \o HashTokens(lib, 1)


(***************************************************************************)
(* The persisted index file (index_path).                                  *)
(*   state   "absent", "corrupt" (unreadable or not JSON) or "json"        *)
(*   version, nrl_hash: "" / <<>> when the key is missing                  *)
(*   sensors, dataloggers, dataloggers_family: the JSON objects, as lists  *)
(*   of members [sig, is_list, objs]: the value of key sig is the list     *)
(*   objs of descriptor objects, or (is_list FALSE) the one object objs[1] *)
(***************************************************************************)
AbsentFile ==
    [state |-> "absent", version |-> "", nrl_hash |-> <<>>, sensors |-> <<>>,
     dataloggers |-> <<>>, dataloggers_family |-> <<>>]

\* A check that does not look at the version tag; C10_NeedsRebuild must
\* tell it from needs_rebuild.
needs_rebuildIgnoringVersion(file, lib) ==
    IF file.state = "absent" THEN TRUE
    ELSE IF file.state = "corrupt" THEN TRUE
    ELSE file.nrl_hash # get_nrl_modification_hash(lib)

CorruptFile == [AbsentFile EXCEPT !.state = "corrupt"]

needs_rebuild(file, lib) ==
    IF file.state = "absent" THEN TRUE
    ELSE IF file.state = "corrupt" THEN TRUE
    ELSE IF file.version # INDEX_VERSION THEN TRUE
    ELSE file.nrl_hash # get_nrl_modification_hash(lib)

\* One signature map of load_index: the entries are converted in file
\* order; a TypeError of InstrumentInfo(**info) leaves the map with the
\* entries converted before it.  wraps: the loop wraps a value that is no
\* list into a one-element list (sensors, dataloggers_family); the
\* dataloggers loop iterates it, over the keys of the object.
RECURSIVE LoadMap(_, _, _)
LoadMap(members, wraps, acc) ==
    IF members = <<>> THEN [map |-> acc, raised |-> ""]
    ELSE LET m == Head(members)
             bad == IF m.is_list \/ wraps
                    THEN \E i \in 1..Len(m.objs) : InfoRaises(m.objs[i])
                    ELSE m.objs[1] # {}
             infos == IF m.is_list \/ wraps
                      THEN [i \in 1..Len(m.objs) |-> InfoFromDict(m.objs[i])]
                      ELSE <<>>
         IN  IF bad THEN [map |-> acc, raised |-> "TypeError"]
             ELSE LoadMap(Tail(members), wraps, SetSig(acc, m.sig, infos))

\* load_index: [self, ret, raised]; raised "" when it returns ret.
load_index(self, file) ==
    IF file.state = "absent" THEN [self |-> self, ret |-> FALSE, raised |-> ""]
    ELSE IF file.state = "corrupt"
    THEN [self |-> self, ret |-> FALSE, raised |-> ""]
    ELSE
    LET s0 == [self EXCEPT !.is_loaded = TRUE]
        sens == LoadMap(file.sensors, TRUE, <<>>)
        s1 == [s0 EXCEPT !._sensor_signatures = sens.map]
        dls == LoadMap(file.dataloggers, FALSE, <<>>)
        s2 == [s1 EXCEPT !._datalogger_signatures = dls.map]
        fam == LoadMap(file.dataloggers_family, TRUE, <<>>)
        s3 == [s2 EXCEPT !._datalogger_family_sigs = fam.map]
    IN  IF sens.raised # ""
        THEN [self |-> s1, ret |-> FALSE, raised |-> sens.raised]
        ELSE IF dls.raised # ""
        THEN [self |-> s2, ret |-> FALSE, raised |-> dls.raised]
        ELSE IF fam.raised # ""
        THEN [self |-> s3, ret |-> FALSE, raised |-> fam.raised]
        ELSE [self |-> s3, ret |-> TRUE, raised |-> ""]

DumpMap(map) ==
    [i \in 1..Len(map) |->
        [sig |-> map[i].sig, is_list |-> TRUE,
         objs |-> [k \in 1..Len(map[i].infos) |-> asdict(map[i].infos[k])]]]

\* save_index: [self, file, ret].  io is what the file system does:
\* "ok"; "open_failed" (open() raises IOError, the file is untouched);
\* "write_failed" (json.dump raises IOError, the file is left truncated).
save_index(self, file, lib, io) ==
    LET data == [state |-> "json",
                 version |-> INDEX_VERSION,
                 nrl_hash |-> get_nrl_modification_hash(lib),
                 sensors |-> DumpMap(self._sensor_signatures),
                 dataloggers |-> DumpMap(self._datalogger_signatures),
                 dataloggers_family |-> DumpMap(self._datalogger_family_sigs)]
    IN  IF io = "ok"
        THEN [self |-> [self EXCEPT !.is_loaded = TRUE], file |-> data,
              ret |-> TRUE]
        ELSE IF io = "open_failed"
        THEN [self |-> self, file |-> file, ret |-> FALSE]
        ELSE [self |-> self, file |-> CorruptFile, ret |-> FALSE]

(***************************************************************************)
(* build_index.                                                            *)
(***************************************************************************)
Present(lib, kind) == {f \in FileIds : lib[f] # 0 /\ NrlFiles[f].kind = kind}

\* _collect_xml_files: the manufacturer directories in sorted order, the
\* files below one manufacturer in the order os.walk yields them, which is
\* the order the operating system enumerates the directory: every order is
\* possible.  The result is the set of the lists the scan can return.
_collect_xml_files(lib, kind) ==
    LET S == Present(lib, kind)
        n == Cardinality(S)
    IN  {s \in [1..n -> S] :
            /\ \A i, j \in 1..n : i # j => s[i] # s[j]
            /\ \A i, j \in 1..n :
                 i < j => \/ NrlFiles[s[i]].manufacturer
                             = NrlFiles[s[j]].manufacturer
                          \/ s[i] < s[j]}

\* float(stage0.stage_gain) of a response, None (Zero) without one.
Stage0Gain(response) ==
    IF response # <<>> /\ Truthy(response[1].stage_gain)
    THEN response[1].stage_gain ELSE Zero

_compute_sensor_info_from_file(f) ==
    IF ~NrlFiles[f].readable THEN [sig |-> NoSig, stage0_gain |-> Zero]
    ELSE [sig |-> _compute_sensor_signature(NrlFiles[f].stages),
          stage0_gain |-> Stage0Gain(NrlFiles[f].stages)]

_compute_datalogger_info_from_file(f) ==
    LET response == NrlFiles[f].stages
        found == _find_adc_stage_index(response)
        adc_idx == IF found # NoAdc THEN found ELSE 1
        exact_sig ==
            IF found # NoAdc
            THEN _compute_dl_sig_with_preamp(response, found)
            ELSE _compute_datalogger_signature_stages_1_plus(response)
        family_sig ==
            IF found # NoAdc
            THEN _compute_dl_sig_without_gain(response, found)
            ELSE exact_sig
    IN  IF ~NrlFiles[f].readable
        THEN [exact_sig |-> NoSig, stage0_gain |-> Zero, adc_gain |-> Zero,
              family_sig |-> NoSig]
        ELSE [exact_sig |-> exact_sig,
              stage0_gain |-> Stage0Gain(response),
              adc_gain |-> _compute_total_digital_gain(response, adc_idx),
              family_sig |-> family_sig]

\* The InstrumentInfo build_index creates for file f.
FileInstrument(f, stage0_gain, adc_gain) ==
    LET fam == extract_family_info(NrlFiles[f].manufacturer, NrlFiles[f].stem,
                                   FileName(f))
    IN  InstrumentInfo(NrlFiles[f].manufacturer, NrlFiles[f].stem,
                       FileName(f), RelPath(f), stage0_gain, adc_gain,
                       fam.family_name, fam.variant_params)

\* What the two functions above return for every file of the library,
\* computed once.
SensorInfoOfFile ==
    [f \in FileIds |-> _compute_sensor_info_from_file(f)]

DataloggerInfoOfFile ==
    [f \in FileIds |-> _compute_datalogger_info_from_file(f)]

IndexSensorOrStop(f, si, map) ==
    IF si.sig # NoSig
    THEN Append1(map, si.sig, FileInstrument(f, si.stage0_gain, Zero))
    ELSE <<>>

\* One turn of the sensor loop: si is what _compute_sensor_info_from_file
\* returned for file f.
IndexSensor(f, si, map) ==
    IF si.sig # NoSig
    THEN Append1(map, si.sig, FileInstrument(f, si.stage0_gain, Zero))
    ELSE map

RECURSIVE IndexSensors(_, _)
IndexSensors(files, map) ==
    IF files = <<>> THEN map
    ELSE IndexSensors(Tail(files),
                      IndexSensor(Head(files), SensorInfoOfFile[Head(files)],
                                  map))

\* One turn of the datalogger loop: dl is what
\* _compute_datalogger_info_from_file returned for file f, instrument the
\* descriptor made of it; maps is [exact, family].
IndexDatalogger(dl, instrument, maps) ==
    IF dl.exact_sig # NoSig
    THEN [exact |-> Append1(maps.exact, dl.exact_sig, instrument),
          family |-> IF dl.family_sig # NoSig
                     THEN Append1(maps.family, dl.family_sig, instrument)
                     ELSE maps.family]
    ELSE maps

DataloggerInstrument(f, dl) == FileInstrument(f, dl.stage0_gain, dl.adc_gain)

RECURSIVE IndexDataloggers(_, _)
IndexDataloggers(files, maps) ==
    IF files = <<>> THEN maps
    ELSE IndexDataloggers(
             Tail(files),
             IndexDatalogger(DataloggerInfoOfFile[Head(files)],
                             DataloggerInstrument(
                                 Head(files),
                                 DataloggerInfoOfFile[Head(files)]),
                             maps))

\* The object after the two loops of build_index.
FilledIndex(self, sensors, dls) ==
    [self EXCEPT !._sensor_signatures = sensors,
                 !._datalogger_signatures = dls.exact,
                 !._datalogger_family_sigs = dls.family]

\* The end of build_index: sv is what save_index returned; build_index
\* drops sv.ret and returns the two counts.
BuildReturn(filled, sv) ==
    [self |-> sv.self, file |-> sv.file,
     ret |-> <<Len(filled._sensor_signatures),
               Len(filled._datalogger_signatures)>>,
     saved |-> sv.ret]

SaveBuilt(filled, file, lib, io) ==
    BuildReturn(filled, save_index(filled, file, lib, io))

\* build_index: [self, file, ret, saved]; ret the pair of counts it returns,
\* saved what its call of save_index returned.
build_index(self, file, lib, sensor_files, datalogger_files, io) ==
    SaveBuilt(FilledIndex(self, IndexSensors(sensor_files, <<>>),
                          IndexDataloggers(datalogger_files,
                                           [exact |-> <<>>, family |-> <<>>])),
              file, lib, io)


(***************************************************************************)
(* Detection.                                                              *)
(***************************************************************************)
\* DetectionResult(): the optional fields None, the confidences 0.0.
DetectionResult ==
    [sensor |-> None, datalogger |-> None,
     sensor_candidates |-> None, datalogger_candidates |-> None,
     sensor_confidence |-> Zero, datalogger_confidence |-> Zero]

datalogger_ambiguous(result) ==
    /\ result.datalogger_candidates # None
    /\ Len(result.datalogger_candidates[1]) > 1

sensor_ambiguous(result) ==
    /\ result.sensor_candidates # None
    /\ Len(result.sensor_candidates[1]) > 1

\* A primary pass that accepts 5 % only; C3_PreampPairWithinTolerance must
\* tell it from the 15 % of the code.
ToleranceFivePercent == <<5, 100>>

Tolerance == <<15, 100>>

\* The primary pass over the candidates, in order: the list of
\* [info, conf] it accepts.
RECURSIVE PrimaryMatches(_, _, _)
PrimaryMatches(candidates, user_adc_gain, user_preamp_gain) ==
    IF candidates = <<>> THEN <<>>
    ELSE LET c == Head(candidates)
             candidate_adc == RAbs(c.adc_gain)
             candidate_preamp == RAbs(c.stage0_gain)
             adc_ratio == RDiv(user_adc_gain, candidate_adc)
             preamp_ratio == RDiv(candidate_preamp, user_preamp_gain)
             rel_diff == RDiv(RAbs(RSub(adc_ratio, preamp_ratio)),
                              preamp_ratio)
             conf == RMax(<<1, 2>>, RSub(One, RMul(rel_diff, <<2, 1>>)))
             rest == PrimaryMatches(Tail(candidates), user_adc_gain,
                                    user_preamp_gain)
         IN  IF /\ Truthy(c.adc_gain) /\ Truthy(c.stage0_gain)
                /\ RLess(Zero, preamp_ratio)
                /\ RLess(rel_diff, Tolerance)
             THEN <<[info |-> c, conf |-> conf]>> \o rest
             ELSE rest

WholeMultipliers == << <<1, 1>>, <<2, 1>>, <<4, 1>> >>

ExpectedMultipliers == << <<1, 1>>, <<2, 1>>, <<4, 1>>, <<1, 2>>, <<1, 4>> >>

RelDiffTo(ratio, expected) == RDiv(RAbs(RSub(ratio, expected)), expected)

\* The secondary pass: the first expected multiplier within 10 %.
RECURSIVE SecondaryMatches(_, _)
SecondaryMatches(candidates, user_adc_gain) ==
    IF candidates = <<>> THEN <<>>
    ELSE LET c == Head(candidates)
             ratio == RDiv(user_adc_gain, RAbs(c.adc_gain))
             hits == {k \in 1..Len(ExpectedMultipliers) :
                        RLess(RelDiffTo(ratio, ExpectedMultipliers[k]),
                              <<1, 10>>)}
             first == CHOOSE k \in hits : \A j \in hits : k <= j
             rest == SecondaryMatches(Tail(candidates), user_adc_gain)
         IN  IF Truthy(c.adc_gain) /\ hits # {}
             THEN <<[info |-> c,
                     conf |-> RSub(<<7, 10>>,
                                   RelDiffTo(ratio,
                                             ExpectedMultipliers[first]))]>>
                  \o rest
             ELSE rest

FirstMatch(matches) == matches[1]

\* matches.sort(key = conf, reverse = True); matches[0]: the sort is stable,
\* so the first match of the highest confidence.
BestMatch(matches) ==
    matches[CHOOSE i \in 1..Len(matches) :
              /\ \A j \in 1..Len(matches) :
                    ~RLess(matches[i].conf, matches[j].conf)
              /\ \A j \in 1..(i - 1) :
                    RLess(matches[j].conf, matches[i].conf)]

\* None, or Some([info, conf]).
_disambiguate_by_gain_calculation(response, candidates, adc_idx_arg) ==
    LET adc_idx == IF adc_idx_arg = NoAdc
                   THEN _find_adc_stage_index(response) ELSE adc_idx_arg
        user_adc_gain == _compute_total_digital_gain(response, adc_idx)
        user_preamp_gain == RAbs(GainProduct(response, 2, adc_idx, FALSE))
        primary == PrimaryMatches(candidates, user_adc_gain, user_preamp_gain)
        secondary == SecondaryMatches(candidates, user_adc_gain)
    IN  IF adc_idx = NoAdc THEN None
        ELSE IF user_adc_gain = Zero \/ user_preamp_gain = Zero THEN None
        ELSE IF primary # <<>> THEN Some(BestMatch(primary))
        ELSE IF secondary # <<>> THEN Some(BestMatch(secondary))
        ELSE None

\* FirstCandidate without the special case of the single candidate; the
\* rule C1_SingleCandidate must tell the two apart.
FirstCandidateNoSingle(candidates) ==
    IF candidates = <<>>
    THEN [raised |-> "IndexError", instrument |-> None, confidence |-> Zero]
    ELSE [raised |-> "", instrument |-> Some(candidates[1]),
          confidence |-> Zero]

\* A rule that reports a confidence and no instrument; C28_WellFormed must
\* tell it from FirstCandidate.
ConfidenceOnly(candidates) ==
    IF candidates = <<>>
    THEN [raised |-> "IndexError", instrument |-> None, confidence |-> Zero]
    ELSE [raised |-> "", instrument |-> None,
          confidence |-> IF Len(candidates) = 1 THEN One ELSE Zero]

\* The rule of the sensor and of the exact lookup: one candidate, 1.0;
\* otherwise candidates[0] with 0.0, an IndexError on an empty list.
FirstCandidate(candidates) ==
    IF candidates = <<>>
    THEN [raised |-> "IndexError", instrument |-> None, confidence |-> Zero]
    ELSE [raised |-> "", instrument |-> Some(candidates[1]),
          confidence |-> IF Len(candidates) = 1 THEN One ELSE Zero]

\* The rule of the family lookup.
FamilyCandidate(response, candidates, adc_idx) ==
    LET best_match == _disambiguate_by_gain_calculation(response, candidates,
                                                        adc_idx)
    IN  IF Len(candidates) = 1
        THEN [instrument |-> Some(candidates[1]), confidence |-> One,
              step |-> "family"]
        ELSE IF Len(candidates) > 1
        THEN IF best_match # None
             THEN [instrument |-> Some(best_match[1].info),
                   confidence |-> best_match[1].conf, step |-> "gain"]
             ELSE [instrument |-> Some(candidates[1]), confidence |-> Zero,
                   step |-> "first"]
        ELSE [instrument |-> None, confidence |-> Zero, step |-> "family"]

(***************************************************************************)
(* The responses handed to detect_instrument.                              *)
(***************************************************************************)
\* A station response: sensor stage, a 2.0x preamplifier, the ADC with the
\* given gain, the Centaur filter chain.
CentaurStation(adc_gain) ==
    <<TrilliumStage, PreampStage(<<2, 1>>), AdcStage(adc_gain, "COUNTS"),
      FirA>>

Responses ==
    { <<>>,
      NrlFiles[3].stages,
      <<TrilliumStage, AdcStage(AdcGain, "COUNTS"), FirB, FirC>>,
      <<TrilliumStage>>,
      <<Cmg3tStage, AdcStage(AdcGain, "DU"), FirA>>,
      CentaurStation(AdcGain),
      CentaurStation(<<440, 1>>),
      CentaurStation(<<800, 1>>),
      CentaurStation(<<200, 1>>) }

\* What detect_instrument computes from the response alone, computed once
\* for every response.
KeysOfResponse ==
    [response \in Responses |->
        LET adc_idx == _find_adc_stage_index(response)
            user_preamp_gain == _find_preamp_gain(response, adc_idx)
        IN  [sensor_sig |-> _compute_sensor_signature(response),
             adc_idx |-> adc_idx,
             exact_sig |->
                 IF adc_idx # NoAdc
                 THEN _compute_dl_sig_with_user_preamp(
                          response, adc_idx, user_preamp_gain # Zero,
                          user_preamp_gain)
                 ELSE NoSig,
             family_sig |->
                 _compute_datalogger_signature_from_response(response)]]

\* The sensor lookup: the result after it, sens the outcome of the
\* candidate rule.
SensorResult(candidates, sens) ==
    [DetectionResult EXCEPT !.sensor_candidates = Some(candidates),
                            !.sensor = sens.instrument,
                            !.sensor_confidence = sens.confidence]

\* A datalogger lookup that hit: r1 the result so far, found the outcome of
\* the candidate rule.
DataloggerResult(r1, candidates, found, step) ==
    [raised |-> "",
     result |-> [r1 EXCEPT !.datalogger_candidates = Some(candidates),
                           !.datalogger = found.instrument,
                           !.datalogger_confidence = found.confidence],
     step |-> step]

Raised(exception) ==
    [raised |-> exception, result |-> DetectionResult, step |-> ""]

ExactLookup(r1, candidates, ex) ==
    IF ex.raised # "" THEN Raised(ex.raised)
    ELSE DataloggerResult(r1, candidates, ex, "exact")

FamilyLookup(r1, candidates, fam) ==
    DataloggerResult(r1, candidates, fam, fam.step)

\* The datalogger lookups, r1 the result after the sensor lookup.
FamilyBeforeExact(self, response, key, r1) ==
    IF key.family_sig # NoSig
       /\ HasSig(self._datalogger_family_sigs, key.family_sig)
    THEN FamilyLookup(r1, Lookup(self._datalogger_family_sigs, key.family_sig),
                      FamilyCandidate(response,
                                      Lookup(self._datalogger_family_sigs,
                                             key.family_sig),
                                      key.adc_idx))
    ELSE IF key.exact_sig # NoSig
            /\ HasSig(self._datalogger_signatures, key.exact_sig)
    THEN ExactLookup(r1, Lookup(self._datalogger_signatures, key.exact_sig),
                     FirstCandidate(Lookup(self._datalogger_signatures,
                                           key.exact_sig)))
    ELSE [raised |-> "", result |-> r1, step |-> ""]

DataloggerLookups(self, response, key, r1) ==
    IF key.exact_sig # NoSig
       /\ HasSig(self._datalogger_signatures, key.exact_sig)
    THEN ExactLookup(r1, Lookup(self._datalogger_signatures, key.exact_sig),
                     FirstCandidate(Lookup(self._datalogger_signatures,
                                           key.exact_sig)))
    ELSE IF key.family_sig # NoSig
            /\ HasSig(self._datalogger_family_sigs, key.family_sig)
    THEN FamilyLookup(r1, Lookup(self._datalogger_family_sigs, key.family_sig),
                      FamilyCandidate(response,
                                      Lookup(self._datalogger_family_sigs,
                                             key.family_sig),
                                      key.adc_idx))
    ELSE [raised |-> "", result |-> r1, step |-> ""]

SensorLookup(self, response, key, candidates, sens) ==
    IF sens.raised # "" THEN Raised(sens.raised)
    ELSE DataloggerLookups(self, response, key,
                           SensorResult(candidates, sens))

LookupsWith(self, response, key) ==
    IF key.sensor_sig # NoSig
       /\ HasSig(self._sensor_signatures, key.sensor_sig)
    THEN SensorLookup(self, response, key,
                      Lookup(self._sensor_signatures, key.sensor_sig),
                      FirstCandidate(Lookup(self._sensor_signatures,
                                            key.sensor_sig)))
    ELSE DataloggerLookups(self, response, key, DetectionResult)

\* detect_instrument after the load-on-demand: [raised, result, step];
\* step names the datalogger lookup that filled the result ("exact",
\* "family", "gain", "first") or "" when none hit.
Lookups(self, response) ==
    LookupsWith(self, response, KeysOfResponse[response])

Answer(ld, lk) ==
    [self |-> ld.self, raised |-> lk.raised, result |-> lk.result,
     step |-> lk.step, loaded |-> TRUE]

\* detect_instrument, ld being the outcome of its load-on-demand.
DetectLoaded(ld, response) ==
    IF ld.raised # ""
    THEN [self |-> ld.self, raised |-> ld.raised,
          result |-> DetectionResult, step |-> "", loaded |-> FALSE]
    ELSE IF ~ld.ret
    THEN [self |-> ld.self, raised |-> "", result |-> DetectionResult,
          step |-> "", loaded |-> FALSE]
    ELSE Answer(ld, Lookups(ld.self, response))

\* detect_instrument: [self, raised, result, step, loaded]; loaded: the
\* lookups ran (the index was loaded, or the load-on-demand returned True).
detect_instrument(self, file, response) ==
    DetectLoaded(IF self.is_loaded
                 THEN [self |-> self, ret |-> TRUE, raised |-> ""]
                 ELSE load_index(self, file),
                 response)


(***************************************************************************)
(* The inputs of the model: the libraries the program starts on, and index *)
(* files it may find that it did not write itself.                         *)
(***************************************************************************)
Library(files) == [f \in FileIds |-> IF f \in files THEN 1 ELSE 0]

InitialLibraries ==
    { Library({3, 8}), Library({1, 2, 7}), Library({4, 5, 8, 9}),
      Library({3, 6, 8, 10}) }

\* Index files of other origin, each made of a snapshot the program wrote:
\* one with the version tag of an earlier release, one whose second sensor
\* descriptor lacks "nrl_path", one whose first sensor signature is mapped
\* to an empty list.
OldVersion(file) == [file EXCEPT !.version = "0.0"]

MissingKey(file) ==
    [file EXCEPT !.sensors[2].objs[1] = {m \in @ : m[1] # "nrl_path"}]

EmptyList(file) == [file EXCEPT !.sensors[1].objs = <<>>]

ForeignFilesOf(file) == {OldVersion(file), MissingKey(file), EmptyList(file)}

WrittenSnapshot ==
    build_index(NewIndex, AbsentFile, Library({3, 7, 8}), <<7, 8>>, <<3>>,
                "ok").file

ForeignFiles == ForeignFilesOf(WrittenSnapshot)

MaxLibEdits == 1
MaxMtime == 2

(***************************************************************************)
(* State.                                                                  *)
(*   nrl         the library: mtime of every file of NrlFiles, 0: absent   *)
(*   index_file  the persisted index                                       *)
(*   nrl_index   the NRLIndex object                                       *)
(*   call        the last call on nrl_index and what it returned           *)
(*   hist        history: the scan of the last build_index of this object, *)
(*               and the library the last written snapshot describes       *)
(*   edits       number of changes made to the library                     *)
(*   worker      the IndexBuildWorker thread: where its build_index stands *)
(***************************************************************************)
VARIABLES nrl, index_file, nrl_index, call, hist, edits, worker

vars == <<nrl, index_file, nrl_index, call, hist, edits, worker>>

\* No worker thread is running.  A running worker has pc "sensors",
\* "dataloggers" or "save", the files its loops have still to index, the
\* lists its scan returned, the library as the scan saw it, and the object
\* as it was when it started.
IdleWorker ==
    [pc |-> "idle", sensor_files |-> <<>>, datalogger_files |-> <<>>,
     scan_sensors |-> <<>>, scan_dataloggers |-> <<>>,
     scan_lib |-> Library({}), old |-> NewIndex]

NoCall ==
    [op |-> "none", response |-> <<>>, was_loaded |-> FALSE, raised |-> "",
     result |-> DetectionResult, step |-> "", loaded |-> FALSE,
     ret |-> FALSE, saved |-> FALSE, counts |-> <<0, 0>>,
     text |-> "", multiline |-> FALSE, show_family |-> FALSE]

NoHist ==
    [built |-> FALSE, saved |-> FALSE,
     sensor_files |-> <<>>, datalogger_files |-> <<>>,
     snap_valid |-> FALSE, snap_lib |-> Library({})]

Init ==
    /\ nrl \in InitialLibraries
    /\ index_file = AbsentFile
    /\ nrl_index = NewIndex
    /\ call = NoCall
    /\ hist = NoHist
    /\ edits = 0
    /\ worker = IdleWorker

\* NRLIndex(nrl_root): a new object, as at program start.
NewInstance ==
    /\ nrl_index' = NewIndex
    /\ call' = NoCall
    /\ hist' = [hist EXCEPT !.built = FALSE, !.saved = FALSE,
                            !.sensor_files = <<>>,
                            !.datalogger_files = <<>>]
    /\ UNCHANGED <<nrl, index_file, edits, worker>>

\* build_index returned b.
BuildIndexReturns(b, sensor_files, datalogger_files, io) ==
    /\ nrl_index' = b.self
    /\ index_file' = b.file
    /\ call' = [NoCall EXCEPT !.op = "build",
                              !.was_loaded = nrl_index.is_loaded,
                              !.saved = b.saved, !.counts = b.ret]
    /\ hist' = [built |-> TRUE, saved |-> b.saved,
                sensor_files |-> sensor_files,
                datalogger_files |-> datalogger_files,
                snap_valid |-> IF io = "open_failed"
                               THEN hist.snap_valid ELSE b.saved,
                snap_lib |-> IF b.saved THEN nrl ELSE hist.snap_lib]
    /\ UNCHANGED <<nrl, edits, worker>>

BuildIndex ==
    \E sensor_files \in _collect_xml_files(nrl, "sensor"),
       datalogger_files \in _collect_xml_files(nrl, "datalogger"),
       io \in {"ok", "open_failed", "write_failed"} :
        BuildIndexReturns(build_index(nrl_index, index_file, nrl,
                                      sensor_files, datalogger_files, io),
                          sensor_files, datalogger_files, io)

\* load_index returned (or raised) ld.
LoadIndexReturns(ld) ==
    /\ nrl_index' = ld.self
    /\ call' = [NoCall EXCEPT !.op = "load",
                              !.was_loaded = nrl_index.is_loaded,
                              !.raised = ld.raised, !.ret = ld.ret]
    /\ hist' = [hist EXCEPT !.built = FALSE, !.saved = FALSE,
                            !.sensor_files = <<>>,
                            !.datalogger_files = <<>>]
    /\ UNCHANGED <<nrl, index_file, edits, worker>>

LoadIndex == LoadIndexReturns(load_index(nrl_index, index_file))

\* detect_instrument returned (or raised) d.
DetectInstrumentReturns(response, d) ==
    /\ nrl_index' = d.self
    /\ call' = [NoCall EXCEPT !.op = "detect", !.response = response,
                              !.was_loaded = nrl_index.is_loaded,
                              !.raised = d.raised,
                              !.result = d.result, !.step = d.step,
                              !.loaded = d.loaded]
    /\ UNCHANGED <<nrl, index_file, hist, edits, worker>>

DetectInstrument ==
    \E response \in Responses :
        DetectInstrumentReturns(response,
                                detect_instrument(nrl_index, index_file,
                                                  response))

NeedsRebuild ==
    /\ call' = [NoCall EXCEPT !.op = "needs_rebuild",
                              !.was_loaded = nrl_index.is_loaded,
                              !.ret = needs_rebuild(index_file, nrl)]
    /\ UNCHANGED <<nrl, index_file, nrl_index, hist, edits, worker>>

\* The environment: the library changes ...
TouchFile ==
    \E f \in FileIds :
        /\ edits < MaxLibEdits
        /\ nrl[f] # 0 /\ nrl[f] < MaxMtime
        /\ nrl' = [nrl EXCEPT ![f] = @ + 1]
        /\ edits' = edits + 1
        /\ call' = NoCall
        /\ UNCHANGED <<index_file, nrl_index, hist, worker>>

AddFile ==
    \E f \in FileIds :
        /\ edits < MaxLibEdits
        /\ nrl[f] = 0
        /\ nrl' = [nrl EXCEPT ![f] = 1]
        /\ edits' = edits + 1
        /\ call' = NoCall
        /\ UNCHANGED <<index_file, nrl_index, hist, worker>>

RemoveFile ==
    \E f \in FileIds :
        /\ edits < MaxLibEdits
        /\ nrl[f] # 0
        /\ nrl' = [nrl EXCEPT ![f] = 0]
        /\ edits' = edits + 1
        /\ call' = NoCall
        /\ UNCHANGED <<index_file, nrl_index, hist, worker>>

\* ... and the index file is deleted, damaged or replaced.
ReplaceIndexFile ==
    \E file \in {AbsentFile, CorruptFile} \cup ForeignFiles :
        /\ index_file # file
        /\ index_file' = file
        /\ call' = NoCall
        /\ hist' = [hist EXCEPT !.snap_valid = FALSE]
        /\ UNCHANGED <<nrl, nrl_index, edits, worker>>

\* The program on a library that does not change.
Next ==
    \/ NewInstance
    \/ BuildIndex
    \/ LoadIndex
    \/ DetectInstrument
    \/ NeedsRebuild
    \/ ReplaceIndexFile

Spec == Init /\ [][Next]_vars

\* The program on one library that changes.
InitLib ==
    /\ nrl = Library({3, 8})
    /\ index_file = AbsentFile
    /\ nrl_index = NewIndex
    /\ call = NoCall
    /\ hist = NoHist
    /\ edits = 0
    /\ worker = IdleWorker

NextLib ==
    \/ NewInstance
    \/ BuildIndex
    \/ LoadIndex
    \/ DetectInstrument
    \/ NeedsRebuild
    \/ ReplaceIndexFile
    \/ TouchFile
    \/ AddFile
    \/ RemoveFile

LibSpec == InitLib /\ [][NextLib]_vars

(***************************************************************************)
(* IndexBuildWorker.run: build_index of the shared NRLIndex on the         *)
(* worker's own thread.  The thread is preempted between the statements of *)
(* build_index; the steps below are the reset of the maps with the scan,   *)
(* one turn of either loop, and save_index.                                *)
(***************************************************************************)
WorkerStart ==
    \E sensor_files \in _collect_xml_files(nrl, "sensor"),
       datalogger_files \in _collect_xml_files(nrl, "datalogger") :
        /\ worker.pc = "idle"
        /\ nrl_index' = [nrl_index EXCEPT !._sensor_signatures = <<>>,
                                          !._datalogger_signatures = <<>>,
                                          !._datalogger_family_sigs = <<>>]
        /\ worker' = [pc |-> "sensors", sensor_files |-> sensor_files,
                      datalogger_files |-> datalogger_files,
                      scan_sensors |-> sensor_files,
                      scan_dataloggers |-> datalogger_files,
                      scan_lib |-> nrl, old |-> nrl_index]
        /\ call' = NoCall
        /\ UNCHANGED <<nrl, index_file, hist, edits>>

WorkerIndexSensor ==
    /\ worker.pc = "sensors"
    /\ IF worker.sensor_files = <<>>
       THEN /\ worker' = [worker EXCEPT !.pc = "dataloggers"]
            /\ UNCHANGED nrl_index
       ELSE /\ nrl_index' =
                [nrl_index EXCEPT !._sensor_signatures =
                    IndexSensor(Head(worker.sensor_files),
                                SensorInfoOfFile[Head(worker.sensor_files)],
                                @)]
            /\ worker' = [worker EXCEPT !.sensor_files = Tail(@)]
    /\ UNCHANGED <<nrl, index_file, call, hist, edits>>

\* The two datalogger maps of the object after one turn of the loop.
WithDataloggerMaps(self, maps) ==
    [self EXCEPT !._datalogger_signatures = maps.exact,
                 !._datalogger_family_sigs = maps.family]

WorkerIndexDatalogger ==
    /\ worker.pc = "dataloggers"
    /\ IF worker.datalogger_files = <<>>
       THEN /\ worker' = [worker EXCEPT !.pc = "save"]
            /\ UNCHANGED nrl_index
       ELSE /\ nrl_index' =
                WithDataloggerMaps(
                    nrl_index,
                    IndexDatalogger(
                        DataloggerInfoOfFile[Head(worker.datalogger_files)],
                        DataloggerInstrument(
                            Head(worker.datalogger_files),
                            DataloggerInfoOfFile[
                                Head(worker.datalogger_files)]),
                        [exact |-> nrl_index._datalogger_signatures,
                         family |-> nrl_index._datalogger_family_sigs]))
            /\ worker' = [worker EXCEPT !.datalogger_files = Tail(@)]
    /\ UNCHANGED <<nrl, index_file, call, hist, edits>>

\* save_index returned sv: the end of the worker's build_index.
WorkerSaved(sv, io) ==
    /\ nrl_index' = sv.self
    /\ index_file' = sv.file
    /\ worker' = [worker EXCEPT !.pc = "idle"]
    /\ hist' = [built |-> TRUE, saved |-> sv.ret,
                sensor_files |-> worker.scan_sensors,
                datalogger_files |-> worker.scan_dataloggers,
                snap_valid |-> IF io = "open_failed"
                               THEN hist.snap_valid ELSE sv.ret,
                snap_lib |-> IF sv.ret THEN nrl ELSE hist.snap_lib]
    /\ UNCHANGED <<nrl, call, edits>>

WorkerSave ==
    \E io \in {"ok", "open_failed", "write_failed"} :
        /\ worker.pc = "save"
        /\ WorkerSaved(save_index(nrl_index, index_file, nrl, io), io)

\* The program while a worker thread builds the index: the caller's thread
\* detects instruments.
NextWorker ==
    \/ WorkerStart
    \/ WorkerIndexSensor
    \/ WorkerIndexDatalogger
    \/ WorkerSave
    \/ DetectInstrument

WorkerSpec == Init /\ [][NextWorker]_vars

(***************************************************************************)
(* The signature functions on their own: a response, a second response     *)
(* made from it by one change, and the signatures of both.                 *)
(***************************************************************************)
\* Every signature the index computes of a response: at detection time
\* (sensor_sig, exact_sig, family_sig) and at build time of a datalogger
\* file (file_exact_sig, fallback_sig).
SignaturesOf(response) ==
    [sensor_sig |-> _compute_sensor_signature(response),
     fallback_sig |-> _compute_datalogger_signature_stages_1_plus(response),
     adc_idx |-> _find_adc_stage_index(response),
     exact_sig |->
         IF _find_adc_stage_index(response) # NoAdc
         THEN _compute_dl_sig_with_user_preamp(
                  response, _find_adc_stage_index(response),
                  _find_preamp_gain(response,
                                    _find_adc_stage_index(response)) # Zero,
                  _find_preamp_gain(response,
                                    _find_adc_stage_index(response)))
         ELSE NoSig,
     file_exact_sig |->
         IF _find_adc_stage_index(response) # NoAdc
         THEN _compute_dl_sig_with_preamp(response,
                                          _find_adc_stage_index(response))
         ELSE NoSig,
     family_sig |-> _compute_datalogger_signature_from_response(response)]

\* An analog filter: three poles, the first and the third with the same
\* coordinates after rounding to 5 significant figures.
AnalogFilterStage ==
    [PolesZerosStage(One,
                     << <<R(-1, 1), One>>,
                        <<R(-1000001, 1000000), R(2, 1)>>,
                        <<R(-1000001, 1000000), One>> >>,
                     << <<Zero, Zero>>, <<R(-5, 1), Zero>> >>)
        EXCEPT !.input_units = "V", !.output_units = "V"]

\* A filter stage that passes its input through.
PassthroughStage(gain, coeffs, dec) ==
    [Stage("CoefficientsTypeResponseStage", gain, "COUNTS", "COUNTS")
        EXCEPT !.decimation_factor = dec, !.numerator = coeffs]

PassthroughStages ==
    {PassthroughStage(gain, coeffs, dec) :
        gain \in {Zero, One, <<2, 1>>},
        coeffs \in {<<>>, <<One>>, <<R(10005, 10000)>>},
        dec \in {0, 1, 2}}

SigResponses ==
    { CentaurStation(AdcGain),
      <<Cmg3tStage, AdcStage(AdcGain, "COUNTS"), FirB, FirC>>,
      <<TrilliumStage, AnalogFilterStage, AdcStage(AdcGain, "DU"), FirA>>,
      <<Cmg3tStage, PreampStage(<<2, 1>>), AdcStage(AdcGain, "COUNTS"),
        PassthroughStage(<<2, 1>>, <<One>>, 1), FirA>> }

\* The record of one comparison: the response of Init, the changed one,
\* what was changed (param, from was to now, or the stage put in or taken
\* out) and the signature the changed parameter enters.
Compared(op, other, param, was, now, enters, stage) ==
    call' = [op |-> op, response |-> call.response, sigs |-> call.sigs,
             other |-> other, other_sigs |-> SignaturesOf(other),
             param |-> param, was |-> was, now |-> now, enters |-> enters,
             stage |-> stage]

InitSig ==
    /\ nrl = Library({})
    /\ index_file = AbsentFile
    /\ nrl_index = NewIndex
    /\ hist = NoHist
    /\ edits = 0
    /\ worker = IdleWorker
    /\ \E response \in SigResponses :
          call = [op |-> "none", response |-> response,
                  sigs |-> SignaturesOf(response), other |-> response,
                  other_sigs |-> SignaturesOf(response), param |-> "",
                  was |-> Zero, now |-> Zero, enters |-> "", stage |-> <<>>]

\* The signatures of the response with the poles and the zeros of one
\* pole-zero stage in another order.
PermutePolesZeros ==
    \E k \in 1..Len(call.response) :
        /\ IsPolesZerosType(call.response[k].type)
        /\ \E p \in Permutations(1..Len(call.response[k].poles)),
              z \in Permutations(1..Len(call.response[k].zeros)) :
              Compared("permute",
                       [call.response EXCEPT
                           ![k].poles =
                               [i \in 1..Len(@) |-> @[p[i]]],
                           ![k].zeros =
                               [i \in 1..Len(@) |-> @[z[i]]]],
                       "", Zero, Zero, "", <<>>)
    /\ UNCHANGED <<nrl, index_file, nrl_index, hist, edits, worker>>

\* The numeric parameters of a response that enter a signature, and the
\* signature each enters.
ParamsOf(response) ==
    {"stage_gain", "pole"}
    \cup (IF _find_adc_stage_index(response) # NoAdc
          THEN {"digital_gain", "coefficient"} ELSE {})
    \cup (IF _find_preamp_gain(response, _find_adc_stage_index(response))
             # Zero
          THEN {"preamp_gain"} ELSE {})

Enters(param) ==
    CASE param \in {"stage_gain", "pole"} -> "sensor_sig"
      [] param \in {"preamp_gain", "digital_gain"} -> "exact_sig"
      [] param = "coefficient" -> "family_sig"

\* The value of the parameter: the gain of the sensor stage, the real part
\* of its last pole, the measured preamp gain, the total digital gain, the
\* first coefficient of the last filter.
ParamValue(response, param) ==
    CASE param = "stage_gain" -> response[1].stage_gain
      [] param = "pole" -> response[1].poles[Len(response[1].poles)][1]
      [] param = "preamp_gain" ->
            _find_preamp_gain(response, _find_adc_stage_index(response))
      [] param = "digital_gain" ->
            _compute_total_digital_gain(response,
                                        _find_adc_stage_index(response))
      [] param = "coefficient" -> response[Len(response)].coefficients[1]

\* The response with the parameter multiplied by factor.
Scaled(response, param, factor) ==
    CASE param = "stage_gain" ->
            [response EXCEPT ![1].stage_gain = RMul(@, factor)]
      [] param = "pole" ->
            [response EXCEPT ![1].poles[Len(response[1].poles)][1] =
                                 RMul(@, factor)]
      [] param = "preamp_gain" ->
            [response EXCEPT ![2].stage_gain = RMul(@, factor)]
      [] param = "digital_gain" ->
            [response EXCEPT
                ![_find_adc_stage_index(response) + 1].stage_gain =
                    RMul(@, factor)]
      [] param = "coefficient" ->
            [response EXCEPT ![Len(response)].coefficients[1] =
                                 RMul(@, factor)]

\* A change in the 6th, the 5th and the 2nd significant figure.
Factors == {<<100001, 100000>>, <<10001, 10000>>, <<11, 10>>}

ChangeValue ==
    /\ \E param \in ParamsOf(call.response), factor \in Factors :
          Compared("change", Scaled(call.response, param, factor), param,
                   ParamValue(call.response, param),
                   ParamValue(Scaled(call.response, param, factor), param),
                   Enters(param), <<>>)
    /\ UNCHANGED <<nrl, index_file, nrl_index, hist, edits, worker>>

\* A passthrough stage put in after the ADC stage ...
InsertPassthrough ==
    /\ call.sigs.adc_idx # NoAdc
    /\ \E k \in (call.sigs.adc_idx + 2)..(Len(call.response) + 1),
          stage \in PassthroughStages :
          Compared("insert",
                   SubSeq(call.response, 1, k - 1) \o <<stage>>
                       \o SubSeq(call.response, k, Len(call.response)),
                   "", Zero, Zero, "", <<stage>>)
    /\ UNCHANGED <<nrl, index_file, nrl_index, hist, edits, worker>>

\* ... or taken out.
RemovePassthrough ==
    /\ call.sigs.adc_idx # NoAdc
    /\ \E k \in (call.sigs.adc_idx + 2)..Len(call.response) :
          /\ _is_passthrough_stage(call.response[k])
          /\ Compared("remove",
                      SubSeq(call.response, 1, k - 1)
                          \o SubSeq(call.response, k + 1, Len(call.response)),
                      "", Zero, Zero, "", <<call.response[k]>>)
    /\ UNCHANGED <<nrl, index_file, nrl_index, hist, edits, worker>>

\* Another gain (or none) on one stage.
ChangeGain ==
    /\ \E k \in 1..Len(call.response),
          gain \in {Zero, <<1, 2>>, <<3, 1>>} :
          Compared("gain", [call.response EXCEPT ![k].stage_gain = gain],
                   "", Zero, Zero, "", <<>>)
    /\ UNCHANGED <<nrl, index_file, nrl_index, hist, edits, worker>>

\* Another stage before the ADC stage.
ChangeAnalogStage ==
    /\ call.sigs.adc_idx # NoAdc
    /\ \E k \in 1..call.sigs.adc_idx,
          stage \in {Cmg3tStage, TrilliumStage, PreampStage(<<4, 1>>)} :
          Compared("analog", [call.response EXCEPT ![k] = stage], "", Zero,
                   Zero, "", <<>>)
    /\ UNCHANGED <<nrl, index_file, nrl_index, hist, edits, worker>>

NextSig ==
    \/ PermutePolesZeros
    \/ ChangeValue
    \/ InsertPassthrough
    \/ RemovePassthrough
    \/ ChangeGain
    \/ ChangeAnalogStage

SigSpec == InitSig /\ [][NextSig]_vars

(***************************************************************************)
(* The summary line of a detection result.                                 *)
(***************************************************************************)
AllCandidates(candidates) == Len(candidates)

\* n_similar = len(candidates) - 1
n_similar(candidates) == Len(candidates) - 1

\* The part appended for one instrument, or no part.
FormatPart(label, instrument, candidates, collapse) ==
    IF instrument = None THEN <<>>
    ELSE IF collapse
    THEN <<label
           \o (IF instrument[1].family_name # ""
               THEN instrument[1].family_name ELSE instrument[1].model)
           \o " (+"
           \o ToString(n_similar(candidates[1])) \o " similar)">>
    ELSE <<label \o instrument[1].manufacturer \o " "
           \o instrument[1].model>>

\* separator.join(parts)
RECURSIVE Join(_, _)
Join(separator, parts) ==
    IF parts = <<>> THEN ""
    ELSE IF Len(parts) = 1 THEN parts[1]
    ELSE parts[1] \o separator \o Join(separator, Tail(parts))

format_detection_result(result, multiline, show_family) ==
    Join(IF multiline THEN "\n" ELSE " | ",
         FormatPart("Sensor: ", result.sensor, result.sensor_candidates,
                    show_family /\ sensor_ambiguous(result))
         \o FormatPart("Datalogger: ", result.datalogger,
                       result.datalogger_candidates,
                       show_family /\ datalogger_ambiguous(result)))

\* A result detect_instrument returned is formatted.
FormatDetectionResult ==
    /\ call.op = "detect"
    /\ call.raised = ""
    /\ \E multiline, show_family \in BOOLEAN :
          call' = [call EXCEPT
                      !.op = "format",
                      !.multiline = multiline,
                      !.show_family = show_family,
                      !.text = format_detection_result(call.result, multiline,
                                                       show_family)]
    /\ UNCHANGED <<nrl, index_file, nrl_index, hist, edits, worker>>

NextFormat ==
    \/ BuildIndex
    \/ DetectInstrument
    \/ FormatDetectionResult

FormatSpec == Init /\ [][NextFormat]_vars

(***************************************************************************)
(* The gain calculation on candidate lists of its own.                     *)
(***************************************************************************)
\* A datalogger descriptor with the two gains the calculation reads.
GainCandidate(model, stage0_gain, adc_gain) ==
    InstrumentInfo("Nanometrics", model, model,
                   "datalogger/Nanometrics/" \o model \o ".xml", stage0_gain,
                   adc_gain, "", "")

GainCandidates ==
    { GainCandidate("A", <<2, 1>>, <<400, 1>>),
      GainCandidate("B", <<2, 1>>, <<400, 1>>),
      GainCandidate("C", <<4, 1>>, <<400, 1>>),
      GainCandidate("D", <<1, 1>>, <<100, 1>>),
      GainCandidate("E", Zero, <<400, 1>>),
      GainCandidate("F", <<2, 1>>, Zero),
      GainCandidate("G", <<-2, 1>>, <<-420, 1>>) }

MaxCandidates == 3

\* The lists of two to MaxCandidates different candidates.
GainCandidateLists ==
    UNION {{s \in [1..n -> GainCandidates] :
               \A i, j \in 1..n : i # j => s[i] # s[j]} :
           n \in 2..MaxCandidates}

\* Stations with or without a 2.0x preamplifier.
GainResponses ==
    {<<TrilliumStage, PreampStage(preamp), AdcStage(adc_gain, "COUNTS"),
       FirA>> :
        preamp \in {Zero, <<2, 1>>},
        adc_gain \in {<<400, 1>>, <<420, 1>>, <<440, 1>>, <<800, 1>>,
                      <<200, 1>>, <<1200, 1>>}}

InitGain ==
    /\ nrl = Library({})
    /\ index_file = AbsentFile
    /\ nrl_index = NewIndex
    /\ hist = NoHist
    /\ edits = 0
    /\ worker = IdleWorker
    /\ \E response \in GainResponses, candidates \in GainCandidateLists :
          call = [op |-> "none", response |-> response,
                  candidates |-> candidates]

\* What the two passes accept, what the calculation returns and what the
\* family lookup of detect_instrument makes of it.
Disambiguated(response, candidates, adc_idx) ==
    call' = [op |-> "disambiguate", response |-> response,
             candidates |-> candidates,
             primary |->
                 PrimaryMatches(
                     candidates,
                     _compute_total_digital_gain(response, adc_idx),
                     RAbs(GainProduct(response, 2, adc_idx, FALSE))),
             secondary |->
                 SecondaryMatches(
                     candidates,
                     _compute_total_digital_gain(response, adc_idx)),
             best_match |->
                 _disambiguate_by_gain_calculation(response, candidates,
                                                   adc_idx),
             chosen |-> FamilyCandidate(response, candidates, adc_idx)]

Disambiguate ==
    /\ call.op = "none"
    /\ Disambiguated(call.response, call.candidates,
                     _find_adc_stage_index(call.response))
    /\ UNCHANGED <<nrl, index_file, nrl_index, hist, edits, worker>>

NextGain == Disambiguate

GainSpec == InitGain /\ [][NextGain]_vars

(***************************************************************************)
(* The measured preamp gain on responses of its own.                       *)
(***************************************************************************)
\* Stages between stage 0 and the ADC stage: volt-to-volt stages with a
\* gain, with a negative gain, without gain, a volt-to-volt filter, and a
\* stage that is not volt-to-volt.
MiddleStages ==
    {PreampStage(<<2, 1>>), PreampStage(<<-3, 1>>), PreampStage(Zero),
     [AnalogFilterStage EXCEPT !.stage_gain = <<5, 1>>], Cmg3tStage}

MaxMiddle == 2

PreampResponses ==
    {<<first>> \o middle \o <<AdcStage(AdcGain, "COUNTS")>> \o last :
        first \in {TrilliumStage, PreampStage(<<7, 1>>)},
        middle \in UNION {[1..n -> MiddleStages] : n \in 0..MaxMiddle},
        last \in {<<FirA>>, <<PreampStage(<<11, 1>>), FirA>>}}

InitPreamp ==
    /\ nrl = Library({})
    /\ index_file = AbsentFile
    /\ nrl_index = NewIndex
    /\ hist = NoHist
    /\ edits = 0
    /\ worker = IdleWorker
    /\ \E response \in PreampResponses :
          call = [op |-> "none", response |-> response]

\* adc_idx and user_preamp_gain as detect_instrument computes them.
FindPreampGain ==
    /\ call.op = "none"
    /\ call' = [op |-> "find_preamp_gain", response |-> call.response,
                adc_idx |-> _find_adc_stage_index(call.response),
                ret |-> _find_preamp_gain(
                            call.response,
                            _find_adc_stage_index(call.response))]
    /\ UNCHANGED <<nrl, index_file, nrl_index, hist, edits, worker>>

NextPreamp == FindPreampGain

PreampSpec == InitPreamp /\ [][NextPreamp]_vars

(***************************************************************************)
(* extract_family_info on model strings that hold parameter tokens.  A     *)
(* string is the sequence of its characters here, so that the regular      *)
(* expressions can be followed character by character; Str gives the       *)
(* string back.                                                            *)
(***************************************************************************)
RECURSIVE Str(_)
Str(chars) == IF chars = <<>> THEN "" ELSE Head(chars) \o Str(Tail(chars))

Digits == {"0", "1", "2", "3", "4", "5", "6", "7", "8", "9"}

Letters ==
    {"A", "B", "C", "D", "E", "F", "G", "H", "I", "J", "K", "L", "M", "N",
     "O", "P", "Q", "R", "S", "T", "U", "V", "W", "X", "Y", "Z",
     "a", "b", "c", "d", "e", "f", "g", "h", "i", "j", "k", "l", "m", "n",
     "o", "p", "q", "r", "s", "t", "u", "v", "w", "x", "y", "z"}

\* The character classes [\d.], \d and \w of the patterns.
InClass(c, class) ==
    CASE class = "[\\d.]" -> c \in Digits \cup {"."}
      [] class = "\\d" -> c \in Digits
      [] class = "\\w" -> c \in Digits \cup Letters \cup {"_"}

\* The literal lit stands in s at position i.
LiteralAt(s, i, lit) ==
    /\ i + Len(lit) - 1 <= Len(s)
    /\ SubSeq(s, i, i + Len(lit) - 1) = lit

\* The last position of the longest run of the class that starts at i
\* (i - 1 when s[i] is not of the class).
RECURSIVE RunEnd(_, _, _)
RunEnd(s, i, class) ==
    IF i <= Len(s) /\ InClass(s[i], class) THEN RunEnd(s, i + 1, class)
    ELSE i - 1

\* A pattern is prefix class+ suffix.  The last position of its match at i,
\* 0 when it does not match there.
MatchEnd(pattern, s, i) ==
    IF /\ LiteralAt(s, i, pattern.prefix)
       /\ RunEnd(s, i + Len(pattern.prefix), pattern.class)
              >= i + Len(pattern.prefix)
       /\ LiteralAt(s, RunEnd(s, i + Len(pattern.prefix), pattern.class) + 1,
                    pattern.suffix)
    THEN RunEnd(s, i + Len(pattern.prefix), pattern.class)
             + Len(pattern.suffix)
    ELSE 0

\* re.findall(pattern, s) from position i on.
RECURSIVE findall(_, _, _)
findall(pattern, s, i) ==
    IF i > Len(s) THEN <<>>
    ELSE IF MatchEnd(pattern, s, i) # 0
    THEN <<SubSeq(s, i, MatchEnd(pattern, s, i))>>
         \o findall(pattern, s, MatchEnd(pattern, s, i) + 1)
    ELSE findall(pattern, s, i + 1)

Pattern(prefix, class, suffix, param_name) ==
    [prefix |-> prefix, class |-> class, suffix |-> suffix,
     param_name |-> param_name]

\* param_name "" is None.
param_patterns ==
    << Pattern(<<"_", "S", "G">>, "[\\d.]", <<>>, "Sensitivity"),
       Pattern(<<"S", "G">>, "[\\d.]", <<>>, "Sensitivity"),
       Pattern(<<"_", "P", "G">>, "\\d", <<>>, "Preamp Gain"),
       Pattern(<<"P", "G">>, "\\d", <<>>, "Preamp Gain"),
       Pattern(<<"_", "L", "P">>, "[\\d.]", <<>>, "LP Corner"),
       Pattern(<<"L", "P">>, "[\\d.]", <<>>, "LP Corner"),
       Pattern(<<"_", "F", "V">>, "[\\d.]", <<"V", "p", "p">>, "Full-scale"),
       Pattern(<<"F", "V">>, "[\\d.]", <<"V", "p", "p">>, "Full-scale"),
       Pattern(<<"_", "F", "R">>, "\\d", <<>>, "Sample Rate"),
       Pattern(<<"F", "R">>, "\\d", <<>>, "Sample Rate"),
       Pattern(<<"_", "D", "F">>, "[\\d.]", <<>>, "DC Filter"),
       Pattern(<<"D", "F">>, "[\\d.]", <<>>, "DC Filter"),
       Pattern(<<"_", "F", "P">>, "\\w", <<>>, "Phase"),
       Pattern(<<"F", "P">>, "\\w", <<>>, "Phase"),
       Pattern(<<"_", "E", "G">>, "\\d", <<>>, "Gen"),
       Pattern(<<"E", "G">>, "\\d", <<>>, "Gen"),
       Pattern(<<"_", "S", "T", "g", "r", "o", "u", "n", "d">>, "\\w", <<>>,
               ""),
       Pattern(<<"S", "T", "g", "r", "o", "u", "n", "d">>, "\\w", <<>>, ""),
       Pattern(<<"_", "R", "C">>, "\\d", <<>>, "Coil R"),
       Pattern(<<"R", "C">>, "\\d", <<>>, "Coil R"),
       Pattern(<<"_", "R", "S">>, "\\w", <<>>, "Shunt R"),
       Pattern(<<"R", "S">>, "\\w", <<>>, "Shunt R"),
       Pattern(<<"_", "L", "F">>, "[\\d.]", <<>>, "LF Corner"),
       Pattern(<<"L", "F">>, "[\\d.]", <<>>, "LF Corner") >>

\* re.search(r'[\d.]+(?:Vpp)?(?:\w+)?$', match): the suffix of match from i
\* is a run of [\d.] followed by word characters only.
ValueFrom(match, i) ==
    /\ InClass(match[i], "[\\d.]")
    /\ \E k \in i..RunEnd(match, i, "[\\d.]") :
          RunEnd(match, k + 1, "\\w") = Len(match)

\* The matched value, <<>> when the search finds nothing.
value_match(match) ==
    IF \E i \in 1..Len(match) : ValueFrom(match, i)
    THEN SubSeq(match,
                CHOOSE i \in 1..Len(match) :
                    /\ ValueFrom(match, i)
                    /\ \A j \in 1..(i - 1) : ~ValueFrom(match, j),
                Len(match))
    ELSE <<>>

\* s.lstrip('_'), s.strip('_'), s.strip()
RECURSIVE lstrip(_, _)
lstrip(s, c) ==
    IF s # <<>> /\ Head(s) = c THEN lstrip(Tail(s), c) ELSE s

RECURSIVE rstrip(_, _)
rstrip(s, c) ==
    IF s # <<>> /\ s[Len(s)] = c THEN rstrip(SubSeq(s, 1, Len(s) - 1), c)
    ELSE s

\* The variant string appended for a match whose value was found.
VariantString(param_name, match, value) ==
    CASE param_name = "Sensitivity" -> Str(value) \o " V/m/s"
      [] param_name = "Sample Rate" -> Str(value) \o " Hz"
      [] param_name = "LP Corner" -> "LP " \o Str(value) \o "s"
      [] param_name = "Full-scale" -> Str(value)
      [] param_name = "Preamp Gain" -> "Gain " \o Str(value) \o "x"
      [] param_name \in {"Gen", "Phase"} -> Str(lstrip(match, "_"))
      [] OTHER -> param_name \o ": " \o Str(value)

\* base_model.replace(match, '', 1)
RECURSIVE ReplaceFirst(_, _)
ReplaceFirst(s, match) ==
    IF s = <<>> THEN <<>>
    ELSE IF LiteralAt(s, 1, match) THEN SubSeq(s, Len(match) + 1, Len(s))
    ELSE <<Head(s)>> \o ReplaceFirst(Tail(s), match)

\* The inner loop over the matches of one pattern; st is
\* [base_model, variant_parts].
RECURSIVE ForMatches(_, _, _)
ForMatches(param_name, matches, st) ==
    IF matches = <<>> THEN st
    ELSE ForMatches(
             param_name, Tail(matches),
             [base_model |-> ReplaceFirst(st.base_model, Head(matches)),
              variant_parts |->
                  IF param_name # "" /\ value_match(Head(matches)) # <<>>
                  THEN Append(st.variant_parts,
                              VariantString(param_name, Head(matches),
                                            value_match(Head(matches))))
                  ELSE st.variant_parts])

\* The outer loop over the patterns from the k-th on (an empty base model
\* has no match left).
RECURSIVE ForPatterns(_, _)
ForPatterns(k, st) ==
    IF k > Len(param_patterns) \/ st.base_model = <<>> THEN st
    ELSE ForPatterns(k + 1,
                     ForMatches(param_patterns[k].param_name,
                                findall(param_patterns[k], st.base_model, 1),
                                st))

\* re.sub(r'_+', '_', s)
RECURSIVE CollapseUnderscores(_)
CollapseUnderscores(s) ==
    IF Len(s) < 2 THEN s
    ELSE IF s[1] = "_" /\ s[2] = "_" THEN CollapseUnderscores(Tail(s))
    ELSE <<Head(s)>> \o CollapseUnderscores(Tail(s))

\* s.split(sep)
RECURSIVE split(_, _)
split(s, sep) ==
    IF \E i \in 1..Len(s) : s[i] = sep
    THEN <<SubSeq(s, 1, (CHOOSE i \in 1..Len(s) :
                            /\ s[i] = sep
                            /\ \A j \in 1..(i - 1) : s[j] # sep) - 1)>>
         \o split(SubSeq(s, (CHOOSE i \in 1..Len(s) :
                                /\ s[i] = sep
                                /\ \A j \in 1..(i - 1) : s[j] # sep) + 1,
                         Len(s)), sep)
    ELSE <<s>>

\* ", ".join(variant_parts)
RECURSIVE JoinParts(_)
JoinParts(parts) ==
    IF parts = <<>> THEN ""
    ELSE IF Len(parts) = 1 THEN parts[1]
    ELSE parts[1] \o ", " \o JoinParts(Tail(parts))

\* The end of extract_family_info: st is what the loops left, stripped
\* the base model after re.sub and strip.
FamilyInfo(manufacturer, description, st, stripped) ==
    [base_model |->
         IF Len(stripped) < 3 /\ Len(split(description, ";")) >= 2
         THEN Str(rstrip(lstrip(split(description, ";")[2], " "), " "))
         ELSE Str(stripped),
     variant_parts |-> st.variant_parts,
     family_name |->
         IF Len(stripped) < 3 /\ Len(split(description, ";")) >= 2
         THEN (IF rstrip(lstrip(split(description, ";")[2], " "), " ") # <<>>
               THEN manufacturer \o " "
                    \o Str(rstrip(lstrip(split(description, ";")[2], " "),
                                  " "))
               ELSE manufacturer)
         ELSE IF stripped # <<>> THEN manufacturer \o " " \o Str(stripped)
         ELSE manufacturer,
     variant_params |-> JoinParts(st.variant_parts)]

\* extract_family_info with model and description as character sequences;
\* the record holds the returned family_name and variant_params ("" for
\* None) and the base_model and variant_parts they are made of.
ExtractFamilyInfo(manufacturer, model, description) ==
    FamilyInfo(manufacturer, description,
               ForPatterns(1, [base_model |-> model, variant_parts |-> <<>>]),
               rstrip(lstrip(CollapseUnderscores(
                                 ForPatterns(1, [base_model |-> model,
                                                 variant_parts |-> <<>>])
                                     .base_model), "_"), "_"))

\* Parameter tokens as they occur in model strings: each pattern with its
\* underscore, two bare ones, and tokens of Phase and Shunt R with and
\* without a digit.
ParameterTokens ==
    { <<"_", "S", "G", "1", "5", "0", "0">>,
      <<"S", "G", "7", "5", "0">>,
      <<"_", "P", "G", "4">>,
      <<"_", "L", "P", "1", ".", "5">>,
      <<"_", "F", "V", "4", "0", "V", "p", "p">>,
      <<"_", "F", "R", "1", "0", "0">>,
      <<"F", "R", "2", "0", "0">>,
      <<"_", "D", "F", "0", ".", "1">>,
      <<"_", "F", "P", "M", "i", "n", "2">>,
      <<"_", "F", "P", "L", "i", "n">>,
      <<"_", "E", "G", "2">>,
      <<"_", "S", "T", "g", "r", "o", "u", "n", "d", "A">>,
      <<"_", "R", "C", "3", "5", "0", "0">>,
      <<"_", "R", "S", "9", "k">>,
      <<"_", "R", "S", "o", "p", "e", "n">>,
      <<"_", "L", "F", "1">> }

IsLabeled(token) == SubSeq(token, 1, 3) # <<"_", "S", "T">>

MaxTokens == 2

RECURSIVE Concat(_)
Concat(seqs) == IF seqs = <<>> THEN <<>> ELSE Head(seqs) \o Concat(Tail(seqs))

FamilyInputs ==
    {[base |-> base, tokens |-> tokens, description |-> description] :
        base \in {<<"Q", "3", "3", "0">>, <<"X">>},
        tokens \in UNION {[1..n -> ParameterTokens] : n \in 0..MaxTokens},
        description \in {<<"Q", "3", "3", "0", ".", "x", "m", "l">>,
                         <<"D", "L", ";", " ", "Q", "3", "3", "0", " ", ";",
                           "2", "0", "1", "3">>}}

InitFamily ==
    /\ nrl = Library({})
    /\ index_file = AbsentFile
    /\ nrl_index = NewIndex
    /\ hist = NoHist
    /\ edits = 0
    /\ worker = IdleWorker
    /\ \E input \in FamilyInputs :
          call = [op |-> "none", base |-> input.base,
                  tokens |-> input.tokens,
                  description |-> input.description]

\* extract_family_info("Quanterra", model, description), the model string
\* being the base followed by the tokens.
ExtractFamily ==
    /\ call.op = "none"
    /\ call' = [op |-> "extract", base |-> call.base,
                tokens |-> call.tokens, description |-> call.description,
                model |-> Str(call.base \o Concat(call.tokens)),
                ret |-> ExtractFamilyInfo("Quanterra",
                                          call.base \o Concat(call.tokens),
                                          call.description)]
    /\ UNCHANGED <<nrl, index_file, nrl_index, hist, edits, worker>>

NextFamily == ExtractFamily

FamilySpec == InitFamily /\ [][NextFamily]_vars

(***************************************************************************)
(* build_index while the library changes: the environment edits the        *)
(* library between the statements of build_index, and the caller asks      *)
(* needs_rebuild.                                                          *)
(***************************************************************************)
NextScan ==
    \/ WorkerStart
    \/ WorkerIndexSensor
    \/ WorkerIndexDatalogger
    \/ WorkerSave
    \/ NeedsRebuild
    \/ TouchFile
    \/ AddFile
    \/ RemoveFile

ScanSpec == InitLib /\ [][NextScan]_vars

(***************************************************************************)
(* The caller and the DetectionResult it was given.  detect_instrument     *)
(* stores in the result the list object it found in the map                *)
(* (result.sensor_candidates = candidates), so the caller's list and the   *)
(* list of the map are one object: what the caller does to it, the map     *)
(* shows.  call.result stays the result as detect_instrument returned it.  *)
(***************************************************************************)
Reverse(list) == [i \in 1..Len(list) |-> list[Len(list) + 1 - i]]

\* del candidates[0] and candidates.reverse()
ListEdits(list) ==
    (IF list # <<>> THEN {Tail(list)} ELSE {})
        \cup (IF Len(list) >= 2 THEN {Reverse(list)} ELSE {})

\* The caller edits result.sensor_candidates.
ModifySensorCandidates ==
    /\ call.op \in {"detect", "modify"}
    /\ call.raised = "" /\ call.loaded
    /\ call.result.sensor_candidates # None
    /\ \E edited \in ListEdits(
                         Lookup(nrl_index._sensor_signatures,
                                KeysOfResponse[call.response].sensor_sig)) :
          nrl_index' =
              [nrl_index EXCEPT !._sensor_signatures =
                  SetSig(@, KeysOfResponse[call.response].sensor_sig, edited)]
    /\ call' = [call EXCEPT !.op = "modify"]
    /\ UNCHANGED <<nrl, index_file, hist, edits, worker>>

\* The caller edits result.datalogger_candidates, the list of the exact map
\* or of the family map.
ModifyDataloggerCandidates ==
    /\ call.op \in {"detect", "modify"}
    /\ call.raised = "" /\ call.loaded
    /\ call.result.datalogger_candidates # None
    /\ IF call.step = "exact"
       THEN \E edited \in ListEdits(
                              Lookup(nrl_index._datalogger_signatures,
                                     KeysOfResponse[call.response].exact_sig)) :
               nrl_index' =
                   [nrl_index EXCEPT !._datalogger_signatures =
                       SetSig(@, KeysOfResponse[call.response].exact_sig,
                              edited)]
       ELSE \E edited \in ListEdits(
                              Lookup(nrl_index._datalogger_family_sigs,
                                     KeysOfResponse[call.response].family_sig)) :
               nrl_index' =
                   [nrl_index EXCEPT !._datalogger_family_sigs =
                       SetSig(@, KeysOfResponse[call.response].family_sig,
                              edited)]
    /\ call' = [call EXCEPT !.op = "modify"]
    /\ UNCHANGED <<nrl, index_file, hist, edits, worker>>

NextAlias ==
    \/ BuildIndex
    \/ DetectInstrument
    \/ ModifySensorCandidates
    \/ ModifyDataloggerCandidates

AliasSpec == Init /\ [][NextAlias]_vars

(***************************************************************************)
(* The program started again: a new NRLIndex beside the index file an      *)
(* earlier run left, the worker thread building on it and the caller's     *)
(* thread detecting instruments.                                           *)
(***************************************************************************)
InitRestart ==
    /\ nrl = Library({3, 7, 8})
    /\ index_file = WrittenSnapshot
    /\ nrl_index = NewIndex
    /\ call = NoCall
    /\ hist = NoHist
    /\ edits = 0
    /\ worker = IdleWorker

NextRestart ==
    \/ WorkerStart
    \/ WorkerIndexSensor
    \/ WorkerIndexDatalogger
    \/ WorkerSave
    \/ DetectInstrument

RestartSpec == InitRestart /\ [][NextRestart]_vars

(***************************************************************************)
(* Properties.  call is the last call made on nrl_index; the lookups of    *)
(* detect_instrument ran when call.loaded.                                 *)
(***************************************************************************)
SingleRule(candidates, instrument, confidence) ==
    (candidates # None /\ Len(candidates[1]) = 1)
        => /\ confidence = One
           /\ instrument = Some(candidates[1][1])

\* C1: a lookup of detect_instrument that finds a list of exactly one
\* candidate reports confidence 1.0 and that candidate as the detected
\* instrument, for the sensor and for the datalogger.
C1_SingleCandidate ==
    (call.op = "detect" /\ call.loaded /\ call.raised = "")
        => /\ SingleRule(call.result.sensor_candidates, call.result.sensor,
                         call.result.sensor_confidence)
           /\ SingleRule(call.result.datalogger_candidates,
                         call.result.datalogger,
                         call.result.datalogger_confidence)

\* C1 happens: one sensor candidate, and one datalogger candidate found by
\* the family lookup.
C1_Witness ==
    /\ call.op = "detect" /\ call.loaded /\ call.raised = ""
    /\ call.result.sensor_candidates # None
    /\ Len(call.result.sensor_candidates[1]) = 1
    /\ call.result.sensor_confidence = One
    /\ call.result.datalogger_candidates # None
    /\ Len(call.result.datalogger_candidates[1]) = 1
    /\ call.result.datalogger_confidence = One
    /\ call.step = "family"

ConfidenceRule(candidates, confidence) ==
    candidates # None
        => /\ confidence = One <=> Len(candidates[1]) = 1
           /\ Len(candidates[1]) > 1
                => \/ confidence = Zero
                   \/ /\ ~RLess(confidence, <<1, 2>>)
                      /\ RLess(confidence, One)

\* C2: a reported confidence is 1.0 exactly when the lookup found one
\* candidate; with more than one candidate it is 0.0 or a value in
\* [0.5, 1.0), never 1.0.
C2_FullConfidenceOnlyForSingle ==
    (call.op = "detect" /\ call.loaded /\ call.raised = "")
        => /\ ConfidenceRule(call.result.sensor_candidates,
                             call.result.sensor_confidence)
           /\ ConfidenceRule(call.result.datalogger_candidates,
                             call.result.datalogger_confidence)

\* Scenario B: the index consulted holds two datalogger references, a and b,
\* under the family signature of the response; a has preamp (stage 0) gain
\* 2.0, b has 4.0, they agree in the total digital gain; the preamp gain
\* measured on the response is 2.0.
PreampPair(self, response, a, b) ==
    LET key == KeysOfResponse[response]
    IN  /\ key.adc_idx # NoAdc
        /\ key.family_sig # NoSig
        /\ HasSig(self._datalogger_family_sigs, key.family_sig)
        /\ Lookup(self._datalogger_family_sigs, key.family_sig)
              \in {<<a, b>>, <<b, a>>}
        /\ Len(self._datalogger_signatures) = 2
        /\ a.stage0_gain = <<2, 1>>
        /\ b.stage0_gain = <<4, 1>>
        /\ a.adc_gain = b.adc_gain
        /\ _find_preamp_gain(response, key.adc_idx) = <<2, 1>>

\* The gains of the response agree with reference a: the stages between the
\* sensor stage and the ADC multiply to 2.0 and the total digital gain is
\* within 15 % of a's.
GainsAgree(response, a) ==
    LET adc_idx == KeysOfResponse[response].adc_idx
        user_adc_gain == _compute_total_digital_gain(response, adc_idx)
    IN  /\ RAbs(GainProduct(response, 2, adc_idx, FALSE)) = <<2, 1>>
        /\ RLess(RAbs(RSub(RDiv(user_adc_gain, a.adc_gain), One)),
                 <<15, 100>>)

DataloggerDescriptors(self) ==
    UNION { {self._datalogger_family_sigs[i].infos[k] :
                k \in 1..Len(self._datalogger_family_sigs[i].infos)} :
            i \in 1..Len(self._datalogger_family_sigs) }

\* C3 as amended: in scenario B, for a response whose gains agree with the
\* 2.0 reference, detect_instrument returns the 2.0 reference as
\* result.datalogger, whichever reference was inserted first.
C3_PreampPairWithinTolerance ==
    (call.op = "detect" /\ call.loaded)
        => \A a, b \in DataloggerDescriptors(nrl_index) :
              (PreampPair(nrl_index, call.response, a, b)
               /\ GainsAgree(call.response, a))
                  => call.result.datalogger = Some(a)

\* C3 happens: the 4.0 reference was inserted first, the digital gain of
\* the response is not the references', and the gain calculation picks the
\* 2.0 reference.
C3_Witness ==
    /\ call.op = "detect" /\ call.loaded
    /\ call.step = "gain"
    /\ \E a, b \in DataloggerDescriptors(nrl_index) :
          /\ PreampPair(nrl_index, call.response, a, b)
          /\ GainsAgree(call.response, a)
          /\ call.result.datalogger_candidates = Some(<<b, a>>)
          /\ call.result.datalogger = Some(a)

\* C3 as stated: in scenario B detect_instrument returns the 2.0 reference
\* for every response whose measured preamp gain is 2.0.
C3_PreampPairAsStated ==
    (call.op = "detect" /\ call.loaded)
        => \A a, b \in DataloggerDescriptors(nrl_index) :
              PreampPair(nrl_index, call.response, a, b)
                  => call.result.datalogger = Some(a)

FallbackFound(found) ==
    Len(found) > 1
        => /\ call.result.datalogger_candidates = Some(found)
           /\ call.result.datalogger = Some(found[1])
           /\ call.result.datalogger_confidence = Zero

FallbackRule(fallback) ==
    (/\ KeysOfResponse[call.response].adc_idx = NoAdc
     /\ fallback # NoSig
     /\ HasSig(nrl_index._datalogger_signatures, fallback))
        => FallbackFound(Lookup(nrl_index._datalogger_signatures, fallback))

\* C4: for a response without ADC stage the fallback signature of the
\* stages after the first is looked up; when it is indexed with several
\* references, the result lists them all, reports the first, and gives
\* confidence 0.0.
C4_FallbackCollision ==
    (call.op = "detect" /\ call.loaded /\ call.raised = "")
        => FallbackRule(
               _compute_datalogger_signature_stages_1_plus(call.response))

\* The descriptor build_index creates for datalogger file d.
DataloggerDescriptor(d) == DataloggerInstrument(d, DataloggerInfoOfFile[d])

\* The decimation filters after the ADC stage that are no pass-through.
DecimationFilters(response) ==
    LET adc_idx == _find_adc_stage_index(response)
    IN  IF adc_idx = NoAdc THEN {}
        ELSE {i \in (adc_idx + 2)..Len(response) :
                 /\ IsCoeffType(response[i].type)
                 /\ response[i].decimation_factor > 1
                 /\ ~_is_passthrough_stage(response[i])}

\* Scenario A: the last build_index of this object scanned one sensor file
\* and the one datalogger file d, an ADC stage followed by two decimation
\* filters.
ScenarioA(d) ==
    /\ hist.built
    /\ Len(hist.sensor_files) = 1
    /\ hist.datalogger_files = <<d>>
    /\ Cardinality(DecimationFilters(NrlFiles[d].stages)) = 2

\* C5: in scenario A, detect_instrument on a response identical to the
\* datalogger file's returns that file's descriptor with confidence 1.0 and
\* datalogger_ambiguous false.
C5_ScenarioA ==
    \A d \in FileIds :
        (/\ call.op = "detect"
         /\ ScenarioA(d)
         /\ call.response = NrlFiles[d].stages)
            => /\ call.raised = ""
               /\ call.result.datalogger = Some(DataloggerDescriptor(d))
               /\ call.result.datalogger_confidence = One
               /\ ~datalogger_ambiguous(call.result)

SameAnswer(built, loaded) ==
    /\ loaded.loaded
    /\ loaded.raised = built.raised
    /\ loaded.result = built.result

RankedByGain(loaded) ==
    /\ loaded.step = "gain"
    /\ datalogger_ambiguous(loaded.result)
    /\ loaded.result.datalogger_confidence = <<4, 5>>

\* C6: right after a build_index whose save succeeded, detect_instrument of
\* a new object, which loads the saved file, gives for every response the
\* result that detect_instrument gives on the maps built in memory.
C6_RoundTrip ==
    (call.op = "build" /\ call.saved)
        => \A response \in Responses :
              SameAnswer(detect_instrument(nrl_index, index_file, response),
                         detect_instrument(NewIndex, index_file, response))

\* C6 happens: a saved build whose index answers a response with two
\* candidates ranked by the gain calculation.
C6_Witness ==
    /\ call.op = "build" /\ call.saved
    /\ \E response \in Responses :
          RankedByGain(detect_instrument(NewIndex, index_file, response))

\* C7: detect_instrument returns a DetectionResult and raises nothing,
\* whatever the response and whatever the index file holds.
C7_DetectNeverRaises ==
    call.op = "detect" => call.raised = ""

\* The object as the build_index recorded in hist left its maps.
BuiltMaps ==
    build_index(NewIndex, AbsentFile, nrl, hist.sensor_files,
                hist.datalogger_files, "open_failed").self

AnswersFrom(built) ==
    /\ call.raised = ""
    /\ nrl_index._sensor_signatures = built._sensor_signatures
    /\ nrl_index._datalogger_signatures = built._datalogger_signatures
    /\ nrl_index._datalogger_family_sigs = built._datalogger_family_sigs
    /\ call.result = Lookups(built, call.response).result

\* C8: after a build_index whose save failed, detect_instrument answers
\* from the maps the build left in memory: it keeps them and returns what
\* the lookups in them give.
C8_SaveFailureKeepsMaps ==
    (call.op = "detect" /\ hist.built /\ ~hist.saved)
        => AnswersFrom(BuiltMaps)

\* C9: load_index and the load of detect_instrument do not take a snapshot
\* that is missing, corrupt or stale (needs_rebuild); a detect_instrument
\* that finds such a snapshot ends with a loaded index, without raising.
C9_NoStaleSnapshot ==
    /\ (call.op = "load" /\ call.ret) => ~needs_rebuild(index_file, nrl)
    /\ (call.op = "detect" /\ ~call.was_loaded)
          => /\ call.raised = ""
             /\ call.loaded
             /\ ~needs_rebuild(index_file, nrl)

CompleteNewIndex ==
    FilledIndex(worker.old, IndexSensors(worker.scan_sensors, <<>>),
                IndexDataloggers(worker.scan_dataloggers,
                                 [exact |-> <<>>, family |-> <<>>]))

AnswerOfEither(old, new) ==
    call.result \in {Lookups(old, call.response).result,
                     Lookups(new, call.response).result}

\* C11: a detect_instrument that runs while the worker thread executes
\* build_index on the same object, the object holding a loaded index when
\* the build began, returns what the lookups give on the complete previous
\* index or on the complete new index.
C11_AtomicPublication ==
    (/\ call.op = "detect" /\ call.raised = ""
     /\ worker.pc # "idle"
     /\ worker.old.is_loaded)
        => AnswerOfEither(worker.old, CompleteNewIndex)

\* The files of one kind in lexicographic order of their paths.
LexicographicScan(lib, kind) ==
    CHOOSE s \in _collect_xml_files(lib, kind) :
        \A i, j \in 1..Len(s) : i < j => s[i] < s[j]

CandidateLists(map) == {<<map[i].sig, map[i].infos>> : i \in 1..Len(map)}

SameCandidateLists(sensors, dls) ==
    /\ CandidateLists(nrl_index._sensor_signatures) = CandidateLists(sensors)
    /\ CandidateLists(nrl_index._datalogger_signatures)
          = CandidateLists(dls.exact)
    /\ CandidateLists(nrl_index._datalogger_family_sigs)
          = CandidateLists(dls.family)

\* C12: after build_index every candidate list holds its descriptors in the
\* lexicographic order of the reference files, whatever order the operating
\* system enumerated the files in.
C12_LexicographicCandidateOrder ==
    call.op = "build"
        => SameCandidateLists(
               IndexSensors(LexicographicScan(nrl, "sensor"), <<>>),
               IndexDataloggers(LexicographicScan(nrl, "datalogger"),
                                [exact |-> <<>>, family |-> <<>>]))


PermutedStages ==
    {k \in 1..Len(call.response) : call.other[k] # call.response[k]}

\* C13: a permutation of the poles and of the zeros of a pole-zero stage
\* leaves the hash of the stage, plain and type-normalised, and the sensor
\* and fallback signatures of the response unchanged.
C13_PermutationInvariant ==
    call.op = "permute" =>
        /\ \A k \in 1..Len(call.response) :
              \A normalize_type \in BOOLEAN :
                 _hash_stage(call.other[k], "s", FALSE, normalize_type)
                     = _hash_stage(call.response[k], "s", FALSE,
                                   normalize_type)
        /\ call.other_sigs.sensor_sig = call.sigs.sensor_sig
        /\ call.other_sigs.fallback_sig = call.sigs.fallback_sig

\* The poles of a stage in which two round to the same coordinates come
\* in another order, and the stage enters the fallback signature.
C13_Witness ==
    /\ call.op = "permute"
    /\ call.sigs.fallback_sig # NoSig
    /\ \E k \in PermutedStages :
          /\ k > 1
          /\ call.other[k].poles # call.response[k].poles
          /\ \E i, j \in 1..Len(call.response[k].poles) :
                /\ i < j
                /\ call.response[k].poles[i] # call.response[k].poles[j]
                /\ SortedRounded(<<call.response[k].poles[i]>>)
                       = SortedRounded(<<call.response[k].poles[j]>>)


SameFiveFigures == round_to_sig_figs(call.was) = round_to_sig_figs(call.now)

SameSignature == call.other_sigs[call.enters] = call.sigs[call.enters]

\* C14: for a numeric parameter that enters a signature, the signature
\* stays the same exactly when the old and the new value agree in their
\* first 5 significant figures.
C14_FiveSignificantFigures ==
    call.op = "change" => (SameFiveFigures <=> SameSignature)


SameFamilySignature == call.other_sigs.family_sig = call.sigs.family_sig

\* The exact signature as detection computes it and as build computes it.
SameExactSignatures ==
    /\ call.other_sigs.exact_sig = call.sigs.exact_sig
    /\ call.other_sigs.file_exact_sig = call.sigs.file_exact_sig

\* C15 as stated: a passthrough stage put in or taken out after the ADC
\* stage changes neither the family nor the exact signature, whatever its
\* gain and decimation factor.
C15_PassthroughAsStated ==
    call.op \in {"insert", "remove"} =>
        SameFamilySignature /\ SameExactSignatures

\* C15: a passthrough stage put in or taken out after the ADC stage leaves
\* the family signature unchanged whatever its gain and decimation factor,
\* and the exact signature unchanged when its gain is absent or 1.0.
C15_PassthroughGainCounts ==
    call.op \in {"insert", "remove"} =>
        /\ SameFamilySignature
        /\ call.stage[1].stage_gain \in {Zero, One} => SameExactSignatures

\* A stage with the single coefficient 1.0005, decimation 2 and gain 1.0 is
\* put in.
C15_Witness ==
    /\ call.op = "insert"
    /\ _get_fir_coefficients(call.stage[1]) = <<R(10005, 10000)>>
    /\ call.stage[1].decimation_factor = 2
    /\ call.stage[1].stage_gain = One
    /\ call.sigs.family_sig # NoSig
    /\ call.sigs.exact_sig # NoSig
    /\ Len(call.other) = Len(call.response) + 1


\* Same ADC index, and the same coefficients and decimation factor on
\* every stage from the ADC stage on.
SameFilterShape ==
    /\ call.sigs.adc_idx # NoAdc
    /\ call.other_sigs.adc_idx = call.sigs.adc_idx
    /\ Len(call.other) = Len(call.response)
    /\ \A k \in (call.sigs.adc_idx + 1)..Len(call.response) :
          /\ _get_fir_coefficients(call.other[k])
                 = _get_fir_coefficients(call.response[k])
          /\ call.other[k].decimation_factor
                 = call.response[k].decimation_factor

\* C16: two responses with the same ADC index and the same filter
\* coefficients and decimation factors from the ADC stage on, which differ
\* in a stage gain or in a stage before the ADC stage, have the same family
\* signature.
C16_FamilyGainIndependent ==
    (call.op \in {"gain", "analog"} /\ SameFilterShape) =>
        call.other_sigs.family_sig = call.sigs.family_sig

\* The gain of a stage from the ADC stage on differs and the exact
\* signatures tell the two responses apart.
C16_Witness ==
    /\ call.op = "gain"
    /\ SameFilterShape
    /\ call.sigs.family_sig # NoSig
    /\ \E k \in (call.sigs.adc_idx + 1)..Len(call.response) :
          call.other[k].stage_gain # call.response[k].stage_gain
    /\ call.other_sigs.exact_sig # call.sigs.exact_sig


IndexedPaths(map) ==
    UNION {{map[i].infos[j].nrl_path : j \in 1..Len(map[i].infos)} :
           i \in 1..Len(map)}

Scanned(files) == {files[i] : i \in 1..Len(files)}

\* C17: after build_index, a file that cannot be read has no descriptor in
\* any map, every readable sensor and datalogger file of the scan has one,
\* and build_index has returned the sizes of the maps.
C17_UnreadableFilesSkipped ==
    call.op = "build" =>
        /\ \A f \in FileIds :
              ~NrlFiles[f].readable =>
                 RelPath(f) \notin
                    IndexedPaths(nrl_index._sensor_signatures)
                    \cup IndexedPaths(nrl_index._datalogger_signatures)
                    \cup IndexedPaths(nrl_index._datalogger_family_sigs)
        /\ \A f \in Scanned(hist.sensor_files) :
              NrlFiles[f].readable =>
                 RelPath(f) \in IndexedPaths(nrl_index._sensor_signatures)
        /\ \A f \in Scanned(hist.datalogger_files) :
              NrlFiles[f].readable =>
                 /\ RelPath(f) \in
                       IndexedPaths(nrl_index._datalogger_signatures)
                 /\ RelPath(f) \in
                       IndexedPaths(nrl_index._datalogger_family_sigs)
        /\ call.counts = <<Len(nrl_index._sensor_signatures),
                           Len(nrl_index._datalogger_signatures)>>

\* A scan that meets an unreadable sensor file and an unreadable datalogger
\* file, each after a readable one of its kind.
C17_Witness ==
    /\ call.op = "build"
    /\ \E i, j \in 1..Len(hist.sensor_files) :
          /\ i < j
          /\ NrlFiles[hist.sensor_files[i]].readable
          /\ ~NrlFiles[hist.sensor_files[j]].readable
    /\ \E i, j \in 1..Len(hist.datalogger_files) :
          /\ i < j
          /\ NrlFiles[hist.datalogger_files[i]].readable
          /\ ~NrlFiles[hist.datalogger_files[j]].readable
    /\ call.counts = <<1, 1>>


\* The rendering the claim gives for one found instrument.
Rendering(info, candidates, show_family) ==
    IF show_family /\ candidates # None /\ Len(candidates[1]) > 1
    THEN (IF info.family_name # "" THEN info.family_name ELSE info.model)
         \o " (+" \o ToString(Len(candidates[1]) - 1) \o " similar)"
    ELSE info.manufacturer \o " " \o info.model

SensorPart ==
    "Sensor: " \o Rendering(call.result.sensor[1],
                            call.result.sensor_candidates, call.show_family)

DataloggerPart ==
    "Datalogger: " \o Rendering(call.result.datalogger[1],
                                call.result.datalogger_candidates,
                                call.show_family)

\* C18: format_detection_result returns "" when neither instrument is set,
\* otherwise the part of each found instrument, labelled, joined by a
\* newline when multiline and by " | " otherwise; with show_family a part
\* with more than one candidate reads "<family> (+N similar)", N the number
\* of candidates less one, every other part "<manufacturer> <model>".
C18_FormatDetectionResult ==
    call.op = "format" =>
        call.text =
            CASE call.result.sensor = None /\ call.result.datalogger = None
                    -> ""
              [] call.result.sensor # None /\ call.result.datalogger = None
                    -> SensorPart
              [] call.result.sensor = None /\ call.result.datalogger # None
                    -> DataloggerPart
              [] call.result.sensor # None /\ call.result.datalogger # None
                    -> SensorPart
                       \o (IF call.multiline THEN "\n" ELSE " | ")
                       \o DataloggerPart

\* A sensor found among two candidates is shown as its family.
C18_Witness ==
    /\ call.op = "format"
    /\ call.show_family
    /\ call.result.sensor # None
    /\ call.result.datalogger = None
    /\ Len(call.result.sensor_candidates[1]) = 2
    /\ call.text = "Sensor: Nanometrics Trillium120 (+1 similar)"


\* The indexed datalogger files with an ADC stage whose response is the one
\* detect_instrument was called on.
FilesOfResponse ==
    {d \in FileIds :
        /\ NrlFiles[d].kind = "datalogger"
        /\ NrlFiles[d].readable
        /\ NrlFiles[d].stages = call.response
        /\ _find_adc_stage_index(call.response) # NoAdc
        /\ RelPath(d) \in IndexedPaths(nrl_index._datalogger_signatures)}

\* C19: detect_instrument on the response of an indexed datalogger file
\* with an ADC stage computes an exact signature that is a key of the exact
\* map, and the exact lookup resolves the match.
C19_BuildAndDetectAgree ==
    (call.op = "detect" /\ call.raised = "" /\ FilesOfResponse # {}) =>
        /\ HasSig(nrl_index._datalogger_signatures,
                  SignaturesOf(call.response).exact_sig)
        /\ call.step = "exact"


ExactSig == SignaturesOf(call.response).exact_sig

ExactHit ==
    /\ ExactSig # NoSig
    /\ HasSig(nrl_index._datalogger_signatures, ExactSig)

ExactCandidates == Lookup(nrl_index._datalogger_signatures, ExactSig)

\* C20: when detect_instrument reaches its lookups and the exact lookup
\* hits, the result it returns holds the candidates of the exact entry and
\* the first of them as the datalogger, with confidence 1.0 when it is the
\* only one and 0.0 otherwise; a result filled from the family map means
\* that the exact lookup did not hit.
C20_ExactHitShortCircuits ==
    (call.op = "detect" /\ call.loaded /\ call.raised = "") =>
        /\ ExactHit =>
              /\ call.step = "exact"
              /\ call.result.datalogger_candidates = Some(ExactCandidates)
              /\ call.result.datalogger = Some(ExactCandidates[1])
              /\ call.result.datalogger_confidence =
                    IF Len(ExactCandidates) = 1 THEN One ELSE Zero
        /\ call.step \in {"family", "gain", "first"} => ~ExactHit

\* The exact lookup picks Centaur2x alone although the family map holds
\* two candidates under the family signature of the response.
C20_Witness ==
    /\ call.op = "detect"
    /\ call.loaded
    /\ call.raised = ""
    /\ ExactHit
    /\ Len(ExactCandidates) = 1
    /\ call.step = "exact"
    /\ HasSig(nrl_index._datalogger_family_sigs,
              SignaturesOf(call.response).family_sig)
    /\ Len(Lookup(nrl_index._datalogger_family_sigs,
                  SignaturesOf(call.response).family_sig)) = 2


\* The matches of the pass that decides: the primary pass, or the secondary
\* pass when the primary pass accepted nothing.
Accepted == IF call.primary # <<>> THEN call.primary ELSE call.secondary

PositionOf(info) ==
    CHOOSE i \in 1..Len(call.candidates) : call.candidates[i] = info

\* C21: the gain calculation returns an accepted candidate of maximal
\* confidence, the earliest of the candidate list among those of that
\* confidence, and detect_instrument reports it; when no pass accepts a
\* candidate it returns nothing and detect_instrument reports the first
\* candidate with confidence 0.0.
C21_BestMatchEarliestOfMaximal ==
    call.op = "disambiguate" =>
        /\ Accepted # <<>> =>
              /\ call.best_match # None
              /\ \E i \in 1..Len(Accepted) : Accepted[i] = call.best_match[1]
              /\ \A j \in 1..Len(Accepted) :
                    /\ ~RLess(call.best_match[1].conf, Accepted[j].conf)
                    /\ Accepted[j].conf = call.best_match[1].conf =>
                          PositionOf(call.best_match[1].info)
                              <= PositionOf(Accepted[j].info)
              /\ call.chosen.instrument = Some(call.best_match[1].info)
              /\ call.chosen.confidence = call.best_match[1].conf
        /\ Accepted = <<>> =>
              /\ call.best_match = None
              /\ call.chosen.instrument = Some(call.candidates[1])
              /\ call.chosen.confidence = Zero

\* Three accepted candidates: the first with a lower confidence than the
\* two others, which tie; the second is returned.
C21_Witness ==
    /\ call.op = "disambiguate"
    /\ Len(Accepted) = 3
    /\ RLess(Accepted[1].conf, Accepted[2].conf)
    /\ Accepted[2].conf = Accepted[3].conf
    /\ call.best_match = Some(Accepted[2])
    /\ call.chosen.instrument = Some(call.candidates[2])


\* The relative difference between adcRatio and preampRatio of a candidate
\* for the response of the call.
RatioDifference(info) ==
    RelDiffTo(RDiv(_compute_total_digital_gain(
                       call.response, _find_adc_stage_index(call.response)),
                   RAbs(info.adc_gain)),
              RDiv(RAbs(info.stage0_gain),
                   RAbs(GainProduct(call.response, 2,
                                    _find_adc_stage_index(call.response),
                                    FALSE))))

\* C22: among the matches of the primary pass a larger relative difference
\* never has the higher confidence, and every confidence is at least 0.5
\* and below 1.0.
C22_PrimaryConfidence ==
    call.op = "disambiguate" =>
        \A i \in 1..Len(call.primary) :
            /\ ~RLess(call.primary[i].conf, <<1, 2>>)
            /\ RLess(call.primary[i].conf, One)
            /\ \A j \in 1..Len(call.primary) :
                  RLess(RatioDifference(call.primary[i].info),
                        RatioDifference(call.primary[j].info))
                      => ~RLess(call.primary[i].conf, call.primary[j].conf)


\* userAdcGain / candidateAdcGain for the response of the call.
AdcRatio(info) ==
    RDiv(_compute_total_digital_gain(call.response,
                                     _find_adc_stage_index(call.response)),
         RAbs(info.adc_gain))

\* The multipliers, in the order of the claim, within 10 % of the ratio.
MultipliersNear(ratio) ==
    SelectSeq(<< <<1, 1>>, <<2, 1>>, <<4, 1>>, <<1, 2>>, <<1, 4>> >>,
              LAMBDA m : RLess(RDiv(RAbs(RSub(ratio, m)), m), <<1, 10>>))

\* The matches the claim gives the secondary pass, in candidate order.
RECURSIVE SecondaryAsClaimed(_)
SecondaryAsClaimed(candidates) ==
    IF candidates = <<>> THEN <<>>
    ELSE (IF Head(candidates).adc_gain # Zero
             /\ MultipliersNear(AdcRatio(Head(candidates))) # <<>>
          THEN <<[info |-> Head(candidates),
                  conf |->
                      RSub(<<7, 10>>,
                           RDiv(RAbs(RSub(AdcRatio(Head(candidates)),
                                          MultipliersNear(
                                              AdcRatio(Head(candidates)))[1])),
                                MultipliersNear(
                                    AdcRatio(Head(candidates)))[1]))]>>
          ELSE <<>>)
         \o SecondaryAsClaimed(Tail(candidates))

\* C23: a match of the secondary pass is returned only when the primary
\* pass accepted nothing; the secondary pass accepts the candidates with a
\* stored ADC gain whose ratio is within 10 % of one of 1.0, 2.0, 4.0, 0.5,
\* 0.25, with confidence 0.7 less the relative difference to the first such
\* multiplier; every secondary confidence is below every primary one.
C23_SecondaryPass ==
    call.op = "disambiguate" =>
        /\ call.primary # <<>> =>
              \E i \in 1..Len(call.primary) :
                 call.best_match = Some(call.primary[i])
        /\ call.secondary = SecondaryAsClaimed(call.candidates)
        /\ (call.primary = <<>> /\ call.secondary # <<>>) =>
              \E i \in 1..Len(call.secondary) :
                 call.best_match = Some(call.secondary[i])
        /\ \A i \in 1..Len(call.secondary) :
              /\ ~RLess(<<7, 10>>, call.secondary[i].conf)
              /\ \A j \in 1..Len(call.primary) :
                    RLess(call.secondary[i].conf, call.primary[j].conf)
        /\ \A j \in 1..Len(call.primary) :
              RLess(<<7, 10>>, call.primary[j].conf)

\* The primary pass accepts nothing, the secondary pass two candidates, the
\* second with the higher confidence, which is returned.
C23_Witness ==
    /\ call.op = "disambiguate"
    /\ call.primary = <<>>
    /\ Len(call.secondary) = 2
    /\ RLess(call.secondary[1].conf, call.secondary[2].conf)
    /\ call.best_match = Some(call.secondary[2])
    /\ call.secondary[2].info.stage0_gain # Zero


\* The product of the gains of the volt-to-volt stages among the stages,
\* a stage without gain counting as 1.0; None (0) when there is none.
RECURSIVE VoltToVoltGains(_)
VoltToVoltGains(stages) ==
    IF stages = <<>> THEN One
    ELSE IF IsVoltToVolt(Head(stages)) /\ Head(stages).stage_gain # Zero
    THEN RMul(Head(stages).stage_gain, VoltToVoltGains(Tail(stages)))
    ELSE VoltToVoltGains(Tail(stages))

PreampGainOf(stages) ==
    IF \E i \in 1..Len(stages) : IsVoltToVolt(stages[i])
    THEN VoltToVoltGains(stages) ELSE Zero

\* C24 as stated: the stages whose index lies strictly between 1 and the
\* ADC index (indices 2 to adc_idx - 1, the first stage having index 0).
C24_StrictlyAfterIndex1 ==
    call.op = "find_preamp_gain" =>
        call.ret = PreampGainOf(SubSeq(call.response, 3, call.adc_idx))

\* C24: _find_preamp_gain returns the product of the gains of the
\* volt-to-volt stages of index 1 to adc_idx - 1, a stage without gain
\* counting as 1.0, and None when there is no such stage; stage 0, the ADC
\* stage, later stages and other stages do not contribute.
C24_FromIndex1 ==
    call.op = "find_preamp_gain" =>
        call.ret = PreampGainOf(SubSeq(call.response, 2, call.adc_idx))

\* Volt-to-volt stages at index 0, 1, 2 and after the ADC stage at index 3,
\* a result that is the product of the gains at index 1 and 2.
C24_Witness ==
    /\ call.op = "find_preamp_gain"
    /\ call.adc_idx = 3
    /\ IsVoltToVolt(call.response[1])
    /\ call.response[2] = PreampStage(<<2, 1>>)
    /\ call.response[3] = PreampStage(<<-3, 1>>)
    /\ IsVoltToVolt(call.response[5])
    /\ call.ret = <<-6, 1>>


LabeledTokens(tokens) == Cardinality({i \in DOMAIN tokens : IsLabeled(tokens[i])})

\* C25: every labeled parameter token of the model string adds exactly one
\* variant string and is removed from the base model, whether its value
\* part holds a digit or not.
C25_OneVariantPerToken ==
    call.op = "extract" =>
        /\ Len(call.ret.variant_parts) = LabeledTokens(call.tokens)
        /\ Len(call.base) >= 3 => call.ret.base_model = Str(call.base)


\* C26: a load_index that returns False or raises leaves the index as it
\* was: is_loaded and the three signature maps are unchanged, so an index
\* that was not loaded is still not loaded.
C26_FailedLoadLeavesIndex ==
    [][call'.op = "load" /\ (call'.ret = FALSE \/ call'.raised # "")
          => nrl_index' = nrl_index]_vars


\* C27: when the last build_index has saved its snapshot and needs_rebuild
\* returns False, the library is as the scan of that build saw it: the hash
\* of the snapshot describes the library its entries were computed from.
C27_HashOfScannedLibrary ==
    /\ call.op = "needs_rebuild"
    /\ worker.pc = "idle"
    /\ hist.built /\ hist.saved
    /\ ~call.ret
    => worker.scan_lib = nrl


WellFormed(instrument, candidates, confidence) ==
    /\ instrument # None <=> (candidates # None /\ candidates[1] # <<>>)
    /\ instrument # None /\ candidates # None
          => \E i \in 1..Len(candidates[1]) : candidates[1][i] = instrument[1]
    /\ RLess(Zero, confidence) => instrument # None

\* C28: every DetectionResult that detect_instrument returns is well formed,
\* for the sensor and for the datalogger: the instrument is set exactly when
\* the candidate list is set and not empty, it is one of the candidates, and
\* a confidence above 0.0 comes with an instrument.  The indexes of the
\* model are those build_index produced and those loaded from a file.
C28_WellFormed ==
    (call.op = "detect" /\ call.raised = "")
        => /\ WellFormed(call.result.sensor, call.result.sensor_candidates,
                         call.result.sensor_confidence)
           /\ WellFormed(call.result.datalogger,
                         call.result.datalogger_candidates,
                         call.result.datalogger_confidence)

\* C28 happens on an index that build_index produced: no sensor found, and
\* among several datalogger candidates one that is not the first is chosen
\* by its gain, with a confidence above 0.0.
C28_Witness ==
    /\ call.op = "detect" /\ call.raised = "" /\ call.was_loaded
    /\ hist.built
    /\ call.result.sensor = None /\ call.result.sensor_candidates = None
    /\ call.step = "gain"
    /\ Len(call.result.datalogger_candidates[1]) > 1
    /\ call.result.datalogger # Some(call.result.datalogger_candidates[1][1])
    /\ RLess(Zero, call.result.datalogger_confidence)


\* C29: what a caller does to the candidate lists of the result it was
\* given leaves the three maps of the index as they were, and
\* detect_instrument on the same response then returns the same result as
\* before.
C29_ResultOwnedByCaller ==
    [][/\ call'.op = "modify" => nrl_index' = nrl_index
       /\ (/\ call.op = "modify"
           /\ call'.op = "detect"
           /\ call'.response = call.response)
             => /\ call'.raised = ""
                /\ call'.result = call.result]_vars


\* C30: when the worker's build_index returns, the three maps hold exactly
\* the descriptors computed from the files of its scan, and so does the
\* snapshot when save_index wrote it, whether or not detect_instrument was
\* called while the build was running.
C30_MapsOfThisScan ==
    [][worker.pc = "save" /\ worker'.pc = "idle"
          => /\ nrl_index'._sensor_signatures
                   = IndexSensors(worker.scan_sensors, <<>>)
             /\ [exact |-> nrl_index'._datalogger_signatures,
                 family |-> nrl_index'._datalogger_family_sigs]
                   = IndexDataloggers(worker.scan_dataloggers,
                                      [exact |-> <<>>, family |-> <<>>])
             /\ hist'.saved
                   => index_file'.sensors
                         = DumpMap(IndexSensors(worker.scan_sensors, <<>>))]_vars

=============================================================================
